---- MODULE Spec2Model ----
(***************************************************************************)
(* Snowstorm conflict manager (snow/consensus/snowstorm/conflicts) driven  *)
(* by the snowstorm graph, over the tx fixtures of consensus_test.go.      *)
(*                                                                         *)
(* conflicts.go is translated statement by statement.  The event blocker,  *)
(* the acceptor / rejector entries, the test decidable and the graph that  *)
(* owns the conflict manager are not part of the source tree at hand; they *)
(* are modelled from the specification (sections 4.1, 4.2, 6) and from the *)
(* behaviour the tests of consensus_test.go pin down.  A tx and the         *)
(* transition it presents are identified by one id.                        *)
(***************************************************************************)
EXTENDS Integers, Sequences, FiniteSets, TLC

(***************************************************************************)
(* Bounds                                                                  *)
(***************************************************************************)
\* number of RecordPoll calls explored
MaxPolls == 3

\* addresses 1..MaxAddrs and UTXO ids 1..MaxUTXOs of the avm state, and the
\* largest limit a client passes to GetUTXOs
MaxAddrs == 2

MaxUTXOs == 3

MaxLimit == 2

\* ids 1..MaxID of parents, restrictions and transition byte strings, and
\* the longest list passed to Build
MaxID == 2

MaxLen == 2

\* number of issueTx calls before Shutdown
MaxIssued == 2

\* epochs are taken within this distance of 0 and of the largest uint32
MaxEpoch == 2

\* number of txs in the vertex of the issuer
MaxVtxTxs == 2

\* largest epoch of a vertex and of the engine
MaxCurrentEpoch == 1

\* number of push-queries other issuers send
MaxQueries == 2

\* largest number of txs the VM buffers before the engine calls Pending
MaxBuffered == 31

(***************************************************************************)
(* sbcon.Parameters of the dependency tests                                *)
(***************************************************************************)
K == 1

Alpha == 1

(***************************************************************************)
(* Statuses (choices.Status)                                               *)
(***************************************************************************)
Processing == "Processing"
Accepted == "Accepted"
Rejected == "Rejected"

(***************************************************************************)
(* Generic helpers on finite maps and sequences                            *)
(***************************************************************************)
Put(f, k, v) == [x \in (DOMAIN f) \cup {k} |-> IF x = k THEN v ELSE f[x]]

Del(f, k) == [x \in (DOMAIN f) \ {k} |-> f[x]]

Get(f, k, dflt) == IF k \in DOMAIN f THEN f[k] ELSE dflt

\* the elements of S in the order in which ord lists them: one iteration of
\* a Go map or set, whose order the runtime picks
InOrder(S, ord) == SelectSeq(ord, LAMBDA x : x \in S)


Reverse(s) == [i \in 1..Len(s) |-> s[Len(s) + 1 - i]]

(***************************************************************************)
(* Tx fixtures: the txs the tests build, with their input ids, their       *)
(* dependencies and their epochs, listed in the order the tests add them   *)
(***************************************************************************)
\* Setup(): R - G - B - A
FixtureColors ==
    [order |-> <<"Red", "Green", "Blue", "Alpha">>,
     inputs |-> [Red |-> {"X"}, Green |-> {"X", "Y"}, Blue |-> {"Y", "Z"}, Alpha |-> {"Z"}],
     deps |-> [Red |-> {}, Green |-> {}, Blue |-> {}, Alpha |-> {}],
     epoch |-> [Red |-> 0, Green |-> 0, Blue |-> 0, Alpha |-> 0]]

\* RejectingDependencyTest: purple depends on Red and Blue
FixtureRejectingDependency ==
    [order |-> <<"Red", "Green", "Blue", "purple">>,
     inputs |-> [Red |-> {"X"}, Green |-> {"X", "Y"}, Blue |-> {"Y", "Z"}, purple |-> {"W"}],
     deps |-> [Red |-> {}, Green |-> {}, Blue |-> {}, purple |-> {"Red", "Blue"}],
     epoch |-> [Red |-> 0, Green |-> 0, Blue |-> 0, purple |-> 0]]

\* RejectingSlowDependencyTest: purple depends on Red and shares an input with cyan
FixtureRejectingSlowDependency ==
    [order |-> <<"Red", "Green", "purple", "cyan">>,
     inputs |-> [Red |-> {"X"}, Green |-> {"X", "Y"}, purple |-> {"C"}, cyan |-> {"C"}],
     deps |-> [Red |-> {}, Green |-> {}, purple |-> {"Red"}, cyan |-> {}],
     epoch |-> [Red |-> 0, Green |-> 0, purple |-> 0, cyan |-> 0]]

\* AcceptingDependencyTest (purple depends on Red) with cyan on top of
\* purple in a later epoch: a dependency chain Red <- purple <- cyan next to
\* the Red / Green conflict
FixtureChain ==
    [order |-> <<"Red", "Green", "purple", "cyan">>,
     inputs |-> [Red |-> {"X"}, Green |-> {"X", "Y"}, purple |-> {"W"}, cyan |-> {"V"}],
     deps |-> [Red |-> {}, Green |-> {}, purple |-> {"Red"}, cyan |-> {"purple"}],
     epoch |-> [Red |-> 0, Green |-> 0, purple |-> 0, cyan |-> 1]]

\* two conflicting txs that depend on the same tx
FixtureSharedDependency ==
    [order |-> <<"Alpha", "Red", "Green">>,
     inputs |-> [Alpha |-> {"Z"}, Red |-> {"X"}, Green |-> {"X", "Y"}],
     deps |-> [Alpha |-> {}, Red |-> {"Alpha"}, Green |-> {"Alpha"}],
     epoch |-> [Alpha |-> 0, Red |-> 0, Green |-> 1]]

\* a dependency chain Alpha <- Green <- purple <- cyan next to the
\* Green / Blue conflict
FixtureRogueDependencyChain ==
    [order |-> <<"Alpha", "Green", "Blue", "purple", "cyan">>,
     inputs |-> [Alpha |-> {"Z"}, Green |-> {"X", "Y"}, Blue |-> {"Y", "W"},
                 purple |-> {"C"}, cyan |-> {"V"}],
     deps |-> [Alpha |-> {}, Green |-> {"Alpha"}, Blue |-> {}, purple |-> {"Green"},
               cyan |-> {"purple"}],
     epoch |-> [Alpha |-> 0, Green |-> 0, Blue |-> 0, purple |-> 0, cyan |-> 0]]

\* the shared dependency with purple, which depends on Red, and Blue, which
\* depends on purple and conflicts with Green
FixtureSharedDependencyChain ==
    [order |-> <<"Alpha", "Red", "Green", "purple", "Blue">>,
     inputs |-> [Alpha |-> {"Z"}, Red |-> {"X"}, Green |-> {"X", "Y"}, purple |-> {"C"},
                 Blue |-> {"Y", "W"}],
     deps |-> [Alpha |-> {}, Red |-> {"Alpha"}, Green |-> {"Alpha"}, purple |-> {"Red"},
               Blue |-> {"purple"}],
     epoch |-> [Alpha |-> 0, Red |-> 0, Green |-> 0, purple |-> 0, Blue |-> 0]]

Fixtures == {FixtureColors, FixtureRejectingDependency, FixtureRejectingSlowDependency,
             FixtureChain, FixtureSharedDependency, FixtureRogueDependencyChain,
             FixtureSharedDependencyChain}

\* sbcon.Parameters of the tests: (BetaVirtuous, BetaRogue)
Betas == {<<1, 1>>, <<1, 2>>}

VARIABLES
    fixture,        \* the txs that exist: their InputIDs() and Dependencies()
    betaVirtuous,   \* params.BetaVirtuous
    betaRogue,      \* params.BetaRogue
    acceptV,        \* txs whose TestDecidable.AcceptV is an error
    rejectV,        \* txs whose TestDecidable.RejectV is an error
    status,         \* TestDecidable.StatusV of every tx
    trStatus,       \* TestTransition.StatusV of every tx's transition
    trEpoch,        \* the epoch every accepted transition was accepted in
    txs,            \* Conflicts.txs: the processing txs
    utxos,          \* Conflicts.utxos: input id -> spenders
    acceptors,      \* acceptor entries, by tx: deps and rejected
    rejectors,      \* rejector entries, by tx: deps and rejected
    pendingAccept,  \* Conflicts.pendingAccept: id -> entries blocked on it
    pendingReject,  \* Conflicts.pendingReject: id -> entries blocked on it
    acceptable,     \* Conflicts.acceptable
    rejectable,     \* Conflicts.rejectable
    nodes,          \* the graph's node per processing tx
    virtuous,       \* the graph's virtuous set
    virtuousVoting, \* the virtuous txs that still need votes
    preferences,    \* the graph's preference set
    currentVote,    \* number of RecordPoll calls so far
    changed,        \* result of the last RecordPoll
    errs,           \* TRUE once a RecordPoll returned an error
    calls,          \* accept / reject callbacks of the last RecordPoll, in order
    votes           \* the ids that reached alpha in the bag of the last RecordPoll

\* avm: the funds of the state and a client that iterates VM.GetUTXOs
VARIABLES
    funds,          \* vm.state: address -> ids of the UTXOs that reference it
    addrs,          \* the addresses the client requests
    limit,          \* the limit the client passes
    paginate,       \* the mode the client passes
    startAddr,      \* the cursor of the next call: address
    startUTXOID,    \* the cursor of the next call: UTXO id
    fetched,        \* UTXO id -> number of times a call returned it
    done            \* a page came back empty, or everything was fetched

utxoVars == <<funds, addrs, limit, paginate, startAddr, startUTXOID, fetched, done>>

\* vertex: the arguments of one call of Build and what it returned
VARIABLES
    chainID,        \* argument chainID
    height,         \* argument height
    vertexEpoch,    \* argument epoch
    parentIDs,      \* the caller's slice parentIDs, which Build sorts in place
    trs,            \* the caller's slice trs, which Build sorts in place
    restrictions,   \* the caller's slice restrictions, which Build sorts in place
    args,           \* the three slices as they were when Build was called
    vtx             \* the vertex Build returned, or NoVertex before the call

vertexVars == <<chainID, height, vertexEpoch, parentIDs, trs, restrictions, args, vtx>>

\* avm: the engine thread, the dispatcher of the batch timer and Shutdown
VARIABLES
    ctxLock,        \* vm.ctx.Lock: "none" or the thread that holds it
    pcEngine,       \* the thread that calls the VM: its position
    pcTimer,        \* the dispatcher goroutine of vm.timer: its position
    armed,          \* vm.timer has a timeout set
    finished,       \* vm.timer was stopped
    vmTxs,          \* len(vm.txs)
    toEngine,       \* messages buffered in vm.toEngine
    issued,         \* number of issueTx calls made
    raced,          \* the callback was waiting for the lock when Shutdown began
    closed          \* vm.baseDB was closed

shutdownVars == <<ctxLock, pcEngine, pcTimer, armed, finished, vmTxs, toEngine, issued, raced, closed>>

\* avm: the inputs and the result of one semantic check of a managed asset
VARIABLES
    txEpoch,            \* epoch of the tx (uint32)
    lastUpdatedEpoch,   \* ManagedAssetStatus: epoch of the last update (uint32)
    assetStatus,        \* ManagedAssetStatus: the status
    oldStatus,          \* ManagedAssetStatus: the status before the last update
    cred,               \* who signed the credential
    early,              \* outcome of the checks before the asset status is read
    lookup,             \* outcome of ManagedAssetStatus
    isUpdate,           \* the operation is an UpdateManagedAssetOperation
    fxOpOK,             \* fx.VerifyOperation returns nil
    called,             \* the check that ran
    verdict             \* the error it returned

assetVars == <<txEpoch, lastUpdatedEpoch, assetStatus, oldStatus, cred, early, lookup,
               isUpdate, fxOpOK, called, verdict>>

\* the txs in the order in which they were added to the graph
VARIABLES inserted

\* avm: the engine that handles the notifications of the VM
VARIABLES
    notified,       \* PendingTxs messages the engine received and has not handled
    returned        \* length of the list the last Pending call returned

batchVars == <<notified, returned>>

\* avalanche engine: one issuer, its vertex and the engine around it
VARIABLES
    vtxDeps,            \* issuer.vtxDeps
    unfulfilledDeps,    \* issuer.unfulfilledDeps
    updatedEpoch,       \* issuer.updatedEpoch
    verifyOK,           \* tx of the vertex -> tx.Verify() returns nil
    processingTrs,      \* the txs whose transition is processing in consensus
    epochOfVtx,         \* vtx.Epoch()
    currentEpoch,       \* t.Ctx.Epoch()
    fail,               \* the call that returns an error, if any
    issuerIssued,       \* issuer.issued
    abandoned,          \* issuer.abandoned
    vtxPending,         \* the vertex is in t.pending
    engineErrs,         \* t.errs.Errored()
    consensusHas,       \* t.Consensus.VertexIssued(vtx)
    vtxBlocked,         \* what t.vtxBlocked told the waiters on the vertex
    transitionsIssued,  \* t.trBlocked.markIssued was called for the txs
    abandonedVertices,  \* t.abandonedVertices
    batches,            \* the calls of t.batch
    pushQueried,        \* t.Sender.PushQuery was called for the vertex
    requestID,          \* t.RequestID
    repolled,           \* t.repoll was called
    blockerCalls,       \* the calls of t.vtxBlocked for the vertex, in order
    addCalls,           \* number of calls of t.Consensus.Add by the issuer
    queries,            \* the RequestIDs of the calls of t.Sender.PushQuery, in order
    lastCall            \* the method of the issuer that ran last

issuerInputs ==
    <<updatedEpoch, verifyOK, processingTrs, epochOfVtx, currentEpoch, fail>>

issuerState ==
    <<issuerIssued, abandoned, vtxPending, engineErrs, consensusHas, vtxBlocked,
      transitionsIssued, abandonedVertices, batches, pushQueried, requestID, repolled,
      blockerCalls, addCalls, queries>>

issuerVars == <<vtxDeps, unfulfilledDeps, issuerInputs, issuerState, lastCall>>

laterVars == <<shutdownVars, assetVars, inserted, issuerVars, batchVars>>

vars == <<fixture, betaVirtuous, betaRogue, acceptV, rejectV, status, trStatus, trEpoch,
          txs, utxos, acceptors, rejectors, pendingAccept, pendingReject, acceptable, rejectable,
          nodes, virtuous, virtuousVoting, preferences, currentVote, changed, errs,
          calls, votes, utxoVars, vertexVars, laterVars>>

Txs == DOMAIN fixture.inputs

InputIDs(tx) == fixture.inputs[tx]

Dependencies(tx) == fixture.deps[tx]

Epoch(tx) == fixture.epoch[tx]

\* the iteration orders explored: the order of the fixture and its reverse,
\* so that every two ids are visited in both relative orders
Orders == {fixture.order, Reverse(fixture.order)}

(***************************************************************************)
(* The mutable state as one record, so that the operations below can be    *)
(* written as functions from state to state.                               *)
(***************************************************************************)
World ==
    [status |-> status, trStatus |-> trStatus, trEpoch |-> trEpoch, txs |-> txs, utxos |-> utxos,
     acceptors |-> acceptors, rejectors |-> rejectors,
     pendingAccept |-> pendingAccept, pendingReject |-> pendingReject,
     acceptable |-> acceptable, rejectable |-> rejectable,
     nodes |-> nodes, virtuous |-> virtuous, virtuousVoting |-> virtuousVoting,
     preferences |-> preferences, currentVote |-> currentVote,
     changed |-> changed, errs |-> errs, calls |-> calls, votes |-> votes]

(***************************************************************************)
(* events.Blocker and the acceptor / rejector entries                      *)
(***************************************************************************)
\* Blocker.Register: list the entry of tx under each of its dependencies
Register(b, tx, deps) ==
    [k \in (DOMAIN b) \cup deps |-> IF k \in deps THEN Append(Get(b, k, <<>>), tx) ELSE b[k]]

\* acceptor.Update: enqueue the tx once nothing blocks it, unless abandoned
AcceptorUpdate(w, tx) ==
    IF w.acceptors[tx].rejected \/ w.acceptors[tx].deps # {}
    THEN w
    ELSE [w EXCEPT !.acceptable = Append(@, tx)]

AcceptorFulfill(w, tx, id) ==
    AcceptorUpdate([w EXCEPT !.acceptors[tx].deps = @ \ {id}], tx)

AcceptorAbandon(w, tx, id) == [w EXCEPT !.acceptors[tx].rejected = TRUE]

\* rejector.Fulfill: the first fulfilled dependency enqueues the tx
RejectorFulfill(w, tx, id) ==
    IF w.rejectors[tx].rejected
    THEN w
    ELSE [w EXCEPT !.rejectors[tx].rejected = TRUE, !.rejectable = Append(@, tx)]

RejectorAbandon(w, tx, id) == w

RECURSIVE AcceptorsFulfill(_, _, _)
AcceptorsFulfill(w, blocking, id) ==
    IF blocking = <<>> THEN w
    ELSE AcceptorsFulfill(AcceptorFulfill(w, Head(blocking), id), Tail(blocking), id)

RECURSIVE AcceptorsAbandon(_, _, _)
AcceptorsAbandon(w, blocking, id) ==
    IF blocking = <<>> THEN w
    ELSE AcceptorsAbandon(AcceptorAbandon(w, Head(blocking), id), Tail(blocking), id)

RECURSIVE RejectorsFulfill(_, _, _)
RejectorsFulfill(w, blocking, id) ==
    IF blocking = <<>> THEN w
    ELSE RejectorsFulfill(RejectorFulfill(w, Head(blocking), id), Tail(blocking), id)

\* Blocker.Fulfill / Blocker.Abandon on the two blockers of the manager
PendingAcceptFulfill(w, id) ==
    AcceptorsFulfill([w EXCEPT !.pendingAccept = Del(@, id)], Get(w.pendingAccept, id, <<>>), id)

PendingAcceptAbandon(w, id) ==
    AcceptorsAbandon([w EXCEPT !.pendingAccept = Del(@, id)], Get(w.pendingAccept, id, <<>>), id)

PendingRejectFulfill(w, id) ==
    RejectorsFulfill([w EXCEPT !.pendingReject = Del(@, id)], Get(w.pendingReject, id, <<>>), id)

PendingRejectAbandon(w, id) == [w EXCEPT !.pendingReject = Del(@, id)]

(***************************************************************************)
(* conflicts.go                                                            *)
(***************************************************************************)
\* the txs that spend every input of the tx, in place of any input
conflicts_Intersection(w, tx) ==
    {t \in UNION {Get(w.utxos, inputID, {}) : inputID \in InputIDs(tx)} :
        \A inputID \in InputIDs(tx) : t \in Get(w.utxos, inputID, {})}

\* Conflicts.conflicts: union of the spenders of the tx's inputs
conflicts(w, tx) == UNION {Get(w.utxos, inputID, {}) : inputID \in InputIDs(tx)}

\* Conflicts that reports no conflict
Conflicts_Empty(w, tx) == {}

\* Conflicts.Conflicts
Conflicts(w, tx) == conflicts(w, tx)

\* Conflicts.IsVirtuous: no input of the tx has a bucket
IsVirtuous(w, tx) == \A inputID \in InputIDs(tx) : inputID \notin DOMAIN w.utxos

\* the test on the status of a dependency inverted
UnacceptedDependencies_Accepted(w, tx) == {d \in Dependencies(tx) : w.trStatus[d] = Accepted}

\* the dependencies of tx that are not accepted (lines 70-78 and 129-137)
UnacceptedDependencies(w, tx) == {d \in Dependencies(tx) : w.trStatus[d] # Accepted}

\* Add without lines 57-62: the tx is not recorded as a spender
Add_NoIndex(w, tx) ==
    LET deps == {tx} \cup UnacceptedDependencies(w, tx)
    IN  [w EXCEPT !.txs = @ \cup {tx},
                  !.rejectors = Put(@, tx, [deps |-> deps, rejected |-> FALSE]),
                  !.pendingReject = Register(@, tx, deps)]

\* Conflicts.Add
Add(w, tx) ==
    LET spent == [inputID \in (DOMAIN w.utxos) \cup InputIDs(tx) |->
                    IF inputID \in InputIDs(tx)
                    THEN Get(w.utxos, inputID, {}) \cup {tx}
                    ELSE w.utxos[inputID]]
        deps == {tx} \cup UnacceptedDependencies(w, tx)
    IN  [w EXCEPT !.txs = @ \cup {tx},
                  !.utxos = spent,
                  !.rejectors = Put(@, tx, [deps |-> deps, rejected |-> FALSE]),
                  !.pendingReject = Register(@, tx, deps)]

\* Accept with an acceptor that waits for no dependency
Accept_NoDependencies(w, txID) ==
    AcceptorUpdate([w EXCEPT !.acceptors = Put(@, txID, [deps |-> {}, rejected |-> FALSE])], txID)

\* Conflicts.Accept
Accept(w, txID) ==
    LET deps == UnacceptedDependencies(w, txID)
    IN  AcceptorUpdate([w EXCEPT !.acceptors = Put(@, txID, [deps |-> deps, rejected |-> FALSE]),
                                 !.pendingAccept = Register(@, txID, deps)], txID)

\* the removal of a spender that keeps the buckets that become empty
RemoveSpender_KeepBucket(u, tx) ==
    [inputID \in DOMAIN u |->
        IF inputID \in InputIDs(tx) THEN u[inputID] \ {tx} ELSE u[inputID]]

\* lines 149-158 and 176-185: drop tx from the bucket of each of its inputs
\* and delete the buckets that become empty
RemoveSpender(u, tx) ==
    [inputID \in {i \in DOMAIN u : ~(i \in InputIDs(tx) /\ u[i] \ {tx} = {})} |->
        IF inputID \in InputIDs(tx) THEN u[inputID] \ {tx} ELSE u[inputID]]

\* lines 164-166
RECURSIVE RejectConflicts(_, _)
RejectConflicts(w, conflictKeys) ==
    IF conflictKeys = <<>> THEN w
    ELSE RejectConflicts(PendingRejectFulfill(w, Head(conflictKeys)), Tail(conflictKeys))

\* the acceptable loop without lines 164-166: the conflicts are not rejected
UpdateAcceptable_KeepConflicts(w, tx, ord) ==
    LET w1 == [w EXCEPT !.utxos = RemoveSpender(@, tx), !.txs = @ \ {tx}]
    IN  PendingRejectAbandon(PendingAcceptFulfill(w1, tx), tx)

\* lines 144-167, one iteration
UpdateAcceptable(w, tx, ord) ==
    LET w1 == [w EXCEPT !.utxos = RemoveSpender(@, tx), !.txs = @ \ {tx}]
        w2 == PendingRejectAbandon(PendingAcceptFulfill(w1, tx), tx)
    IN  RejectConflicts(w2, InOrder(conflicts(w2, tx), ord))

\* the rejectable loop without lines 176-185: the tx stays a spender
UpdateRejectable_KeepSpender(w, tx) ==
    LET w1 == [w EXCEPT !.txs = @ \ {tx}]
    IN  PendingRejectFulfill(PendingAcceptAbandon(w1, tx), tx)

\* the rejectable loop without line 188: the acceptors that wait for the
\* tx are not abandoned
UpdateRejectable_NoAbandon(w, tx) ==
    LET w1 == [w EXCEPT !.utxos = RemoveSpender(@, tx), !.txs = @ \ {tx}]
    IN  PendingRejectFulfill(w1, tx)

\* lines 171-190, one iteration
UpdateRejectable(w, tx) ==
    LET w1 == [w EXCEPT !.utxos = RemoveSpender(@, tx), !.txs = @ \ {tx}]
    IN  PendingRejectFulfill(PendingAcceptAbandon(w1, tx), tx)

RECURSIVE UpdateAcceptables(_, _, _)
UpdateAcceptables(w, list, ord) ==
    IF list = <<>> THEN w
    ELSE UpdateAcceptables(UpdateAcceptable(w, Head(list), ord), Tail(list), ord)

RECURSIVE UpdateRejectables(_, _)
UpdateRejectables(w, list) ==
    IF list = <<>> THEN w
    ELSE UpdateRejectables(UpdateRejectable(w, Head(list)), Tail(list))

\* Conflicts.Updateable: the state after the call and the two returned lists
Updateable(w, ord) ==
    LET w1 == UpdateAcceptables([w EXCEPT !.acceptable = <<>>], w.acceptable, ord)
        w2 == UpdateRejectables([w1 EXCEPT !.rejectable = <<>>], w1.rejectable)
    IN  [w |-> w2, acceptable |-> w.acceptable, rejectable |-> w1.rejectable]

(***************************************************************************)
(* The test decidable and the test tx (test_tx.go)                         *)
(***************************************************************************)
\* Accept that does not refuse a rejected tx
DecidableAccept_Unguarded(w, tx) ==
    IF tx \in acceptV
    THEN [w EXCEPT !.status[tx] = Accepted, !.errs = TRUE]
    ELSE [w EXCEPT !.status[tx] = Accepted]

\* TestDecidable.Accept: a rejected tx cannot be accepted; AcceptV is
\* returned after the status is set
DecidableAccept(w, tx) ==
    IF w.status[tx] = Rejected
    THEN [w EXCEPT !.errs = TRUE]
    ELSE IF tx \in acceptV
    THEN [w EXCEPT !.status[tx] = Accepted, !.errs = TRUE]
    ELSE [w EXCEPT !.status[tx] = Accepted]

\* TestDecidable.Reject: an accepted tx cannot be rejected
DecidableReject(w, tx) ==
    IF w.status[tx] = Accepted
    THEN [w EXCEPT !.errs = TRUE]
    ELSE IF tx \in rejectV
    THEN [w EXCEPT !.status[tx] = Rejected, !.errs = TRUE]
    ELSE [w EXCEPT !.status[tx] = Rejected]

\* TestTransition.Accept(epoch) and TestTransition.Reject(epoch)
TransitionAccept(w, tx, epoch) ==
    [w EXCEPT !.trStatus[tx] = Accepted, !.trEpoch[tx] = epoch]

TransitionReject(w, tx, epoch) == [w EXCEPT !.trStatus[tx] = Rejected]

\* TestTx.Accept: the transition is accepted in the epoch of the tx unless
\* the decidable returned an error
TxAccept(w, tx) ==
    LET w1 == DecidableAccept(w, tx)
    IN  IF w1.errs THEN w1 ELSE TransitionAccept(w1, tx, Epoch(tx))

\* TestTx.Reject
TxReject(w, tx) ==
    LET w1 == DecidableReject(w, tx)
    IN  IF w1.errs THEN w1 ELSE TransitionReject(w1, tx, Epoch(tx))

(***************************************************************************)
(* The snowstorm graph                                                     *)
(***************************************************************************)
\* Issued: processing, accepted or rejected
Issued(w, tx) == w.status[tx] # Processing \/ tx \in DOMAIN w.nodes

\* Finalized: no processing tx remains
Finalized(w) == DOMAIN w.nodes = {}

\* Quiesce: no virtuous tx still needs votes
Quiesce(w) == w.virtuousVoting = {}

\* a threshold that does not depend on whether the tx is rogue
NodeFinalized_VirtuousOnly(n) == n.confidence >= betaVirtuous

\* the snowball instance of a tx reached its threshold
NodeFinalized(n) ==
    (~n.rogue /\ n.confidence >= betaVirtuous) \/ n.confidence >= betaRogue

\* Graph.Add: conflict edges towards the txs that already spend an input of
\* tx, which stay preferred over it, then Conflicts.Add
GraphAdd(w, tx) ==
    LET cs == Conflicts(w, tx)
        node == [numSuccessfulPolls |-> 0, confidence |-> 0, rogue |-> cs # {},
                 pendingAccept |-> FALSE, ins |-> {}, outs |-> cs]
        marked == [t \in DOMAIN w.nodes |->
                     IF t \in cs
                     THEN [w.nodes[t] EXCEPT !.rogue = TRUE, !.ins = @ \cup {tx}]
                     ELSE w.nodes[t]]
        w1 == [w EXCEPT !.nodes = Put(marked, tx, node),
                        !.virtuous = IF cs = {} THEN @ \cup {tx} ELSE @ \ cs,
                        !.virtuousVoting = IF cs = {} THEN @ \cup {tx} ELSE @ \ cs,
                        !.preferences = IF cs = {} THEN @ \cup {tx} ELSE @]
    IN  Add(w1, tx)

\* the redirection of an edge that reports a change only when tx becomes
\* preferred
RedirectEdge_PreferredOnly(w, tx, conflictID) ==
    IF w.nodes[tx].numSuccessfulPolls <= w.nodes[conflictID].numSuccessfulPolls
    THEN w
    ELSE LET w1 == [w EXCEPT !.nodes[conflictID].ins = @ \ {tx},
                             !.nodes[conflictID].outs = @ \cup {tx},
                             !.nodes[tx].ins = @ \cup {conflictID},
                             !.nodes[tx].outs = @ \ {conflictID}]
         IN  IF w1.nodes[tx].outs = {}
             THEN [w1 EXCEPT !.preferences = (@ \ {conflictID}) \cup {tx}, !.changed = TRUE]
             ELSE [w1 EXCEPT !.preferences = @ \ {conflictID}]

\* the redirection of an edge as soon as tx has as many successful polls
RedirectEdge_OnTie(w, tx, conflictID) ==
    IF w.nodes[tx].numSuccessfulPolls < w.nodes[conflictID].numSuccessfulPolls
    THEN w
    ELSE LET w1 == [w EXCEPT !.nodes[conflictID].ins = @ \ {tx},
                             !.nodes[conflictID].outs = @ \cup {tx},
                             !.nodes[tx].ins = @ \cup {conflictID},
                             !.nodes[tx].outs = @ \ {conflictID},
                             !.changed = TRUE]
         IN  [w1 EXCEPT !.preferences =
                 IF w1.nodes[tx].outs = {} THEN (@ \ {conflictID}) \cup {tx} ELSE @ \ {conflictID}]

\* redirect the edge between tx and a more preferred conflict once tx has
\* strictly more successful polls
RedirectEdge(w, tx, conflictID) ==
    IF w.nodes[tx].numSuccessfulPolls <= w.nodes[conflictID].numSuccessfulPolls
    THEN w
    ELSE LET w1 == [w EXCEPT !.nodes[conflictID].ins = @ \ {tx},
                             !.nodes[conflictID].outs = @ \cup {tx},
                             !.nodes[tx].ins = @ \cup {conflictID},
                             !.nodes[tx].outs = @ \ {conflictID},
                             !.changed = TRUE]
         IN  [w1 EXCEPT !.preferences =
                 IF w1.nodes[tx].outs = {} THEN (@ \ {conflictID}) \cup {tx} ELSE @ \ {conflictID}]

RECURSIVE RedirectEdges(_, _, _)
RedirectEdges(w, tx, outs) ==
    IF outs = <<>> THEN w
    ELSE RedirectEdges(RedirectEdge(w, tx, Head(outs)), tx, Tail(outs))

\* a successful poll that leaves the preferences as they are
RecordSuccessfulPoll_NoRedirect(w, tx, ord) ==
    LET w1 == [w EXCEPT !.nodes[tx].numSuccessfulPolls = @ + 1,
                        !.nodes[tx].confidence = @ + 1]
    IN  IF ~w1.nodes[tx].pendingAccept /\ NodeFinalized(w1.nodes[tx])
        THEN Accept([w1 EXCEPT !.nodes[tx].pendingAccept = TRUE,
                               !.virtuousVoting = @ \ {tx}], tx)
        ELSE w1

\* one successful poll of a processing tx: count it, register the acceptor
\* the first time the threshold is reached, update the preferences
RecordSuccessfulPoll(w, tx, ord) ==
    LET w1 == [w EXCEPT !.nodes[tx].numSuccessfulPolls = @ + 1,
                        !.nodes[tx].confidence = @ + 1]
        w2 == IF ~w1.nodes[tx].pendingAccept /\ NodeFinalized(w1.nodes[tx])
              THEN Accept([w1 EXCEPT !.nodes[tx].pendingAccept = TRUE,
                                     !.virtuousVoting = @ \ {tx}], tx)
              ELSE w1
    IN  RedirectEdges(w2, tx, InOrder(w2.nodes[tx].outs, ord))

RECURSIVE RecordPolls(_, _, _)
RecordPolls(w, met, ord) ==
    IF met = <<>> THEN w
    ELSE IF Head(met) \notin DOMAIN w.nodes
    THEN RecordPolls(w, Tail(met), ord)
    ELSE RecordPolls(RecordSuccessfulPoll(w, Head(met), ord), Tail(met), ord)

\* the removal of a node that does not report a change
RemoveNode_Silent(w, tx) ==
    LET rest == [t \in (DOMAIN w.nodes) \ {tx} |->
                    [w.nodes[t] EXCEPT !.ins = @ \ {tx}, !.outs = @ \ {tx}]]
        freed == {t \in DOMAIN rest : rest[t].outs = {}}
    IN  [w EXCEPT !.nodes = rest,
                  !.virtuous = @ \ {tx},
                  !.virtuousVoting = @ \ {tx},
                  !.preferences = (@ \ {tx}) \cup freed]

\* drop the node of a decided tx and the edges that point at it
RemoveNode(w, tx) ==
    LET rest == [t \in (DOMAIN w.nodes) \ {tx} |->
                    [w.nodes[t] EXCEPT !.ins = @ \ {tx}, !.outs = @ \ {tx}]]
        freed == {t \in DOMAIN rest : rest[t].outs = {}}
    IN  [w EXCEPT !.nodes = rest,
                  !.virtuous = @ \ {tx},
                  !.virtuousVoting = @ \ {tx},
                  !.preferences = (@ \ {tx}) \cup freed,
                  !.changed = TRUE]

\* the graph accepts a tx the manager returned as acceptable
GraphAccept(w, tx) ==
    TxAccept([RemoveNode(w, tx) EXCEPT !.calls = Append(@, <<"accept", tx>>)], tx)

\* the graph rejects a tx the manager returned as rejectable
GraphReject(w, tx) ==
    TxReject([RemoveNode(w, tx) EXCEPT !.calls = Append(@, <<"reject", tx>>)], tx)

RECURSIVE AcceptAll(_, _)
AcceptAll(w, list) ==
    IF list = <<>> \/ w.errs THEN w
    ELSE AcceptAll(GraphAccept(w, Head(list)), Tail(list))

RECURSIVE RejectAll(_, _)
RejectAll(w, list) ==
    IF list = <<>> \/ w.errs THEN w
    ELSE RejectAll(GraphReject(w, Head(list)), Tail(list))

\* call Updateable until it returns nothing; an error aborts the poll
RECURSIVE Drain(_, _)
Drain(w, ord) ==
    LET u == Updateable(w, ord)
    IN  IF u.acceptable = <<>> /\ u.rejectable = <<>>
        THEN u.w
        ELSE LET w1 == RejectAll(AcceptAll(u.w, u.acceptable), u.rejectable)
             IN  IF w1.errs THEN w1 ELSE Drain(w1, ord)

\* the ids of the bag with at least alpha votes
Threshold(bag) == {id \in DOMAIN bag : bag[id] >= Alpha}

\* a poll that keeps the confidence of the txs below alpha
RecordPoll_NoReset(w, bag, ord) ==
    LET met == Threshold(bag)
        w1 == [w EXCEPT !.currentVote = @ + 1, !.changed = FALSE, !.calls = <<>>,
                        !.votes = met]
    IN  Drain(RecordPolls(w1, InOrder(met, ord), ord), ord)

\* Graph.RecordPoll
RecordPoll(w, bag, ord) ==
    LET met == Threshold(bag)
        reset == [t \in DOMAIN w.nodes |->
                    IF t \in met THEN w.nodes[t] ELSE [w.nodes[t] EXCEPT !.confidence = 0]]
        w1 == [w EXCEPT !.currentVote = @ + 1, !.changed = FALSE, !.calls = <<>>,
                        !.votes = met, !.nodes = reset]
    IN  Drain(RecordPolls(w1, InOrder(met, ord), ord), ord)

(***************************************************************************)
(* avm: VM.GetUTXOs (vm.go)                                                *)
(***************************************************************************)
maxUTXOsToFetch == 1024

Addrs == 1..MaxAddrs

UTXOIDs == 1..MaxUTXOs

\* ids.ShortEmpty and ids.Empty: the all-zero ids, below every other id
ShortEmpty == CHOOSE a \in 0..MaxAddrs : \A b \in Addrs : a < b

Empty == CHOOSE u \in 0..MaxUTXOs : \A v \in UTXOIDs : u < v

\* ids.SortShortIDs, and the order in which the state iterates ids
RECURSIVE Ascending(_)
Ascending(S) ==
    IF S = {} THEN <<>>
    ELSE LET m == CHOOSE x \in S : \A y \in S : x <= y
         IN  <<m>> \o Ascending(S \ {m})

\* state.Funds: at most n ids of the UTXOs that reference addr, in
\* ascending order, starting after the id start
Funds(addr, start, n) ==
    LET all == Ascending({u \in funds[addr] : u > start})
    IN  SubSeq(all, 1, IF n < Len(all) THEN n ELSE Len(all))

\* lines 553-571: the loop over the ids fetched for one address
RECURSIVE ScanUTXOs(_, _, _)
ScanUTXOs(st, addr, utxoIDs) ==
    IF utxoIDs = <<>> THEN st
    ELSE LET utxoID == Head(utxoIDs)
             st1 == [st EXCEPT !.lastIndex = utxoID, !.lastAddr = addr]
         IN  IF utxoID \in st1.seen
             THEN ScanUTXOs(st1, addr, Tail(utxoIDs))
             ELSE LET st2 == [st1 EXCEPT !.utxos = Append(@, utxoID),
                                         !.seen = @ \cup {utxoID},
                                         !.limit = @ - 1]
                  IN  IF st2.limit <= 0
                      THEN [st2 EXCEPT !.stop = TRUE]
                      ELSE ScanUTXOs(st2, addr, Tail(utxoIDs))

\* lines 539-573: the loop over the sorted addresses
RECURSIVE ScanAddrs(_, _, _, _, _)
ScanAddrs(st, addrsList, fromAddr, fromUTXOID, searchSize) ==
    IF addrsList = <<>> \/ st.stop THEN st
    ELSE LET addr == Head(addrsList)
         IN  IF addr < fromAddr
             THEN ScanAddrs(st, Tail(addrsList), fromAddr, fromUTXOID, searchSize)
             ELSE LET start == IF addr = fromAddr THEN fromUTXOID ELSE Empty
                  IN  ScanAddrs(ScanUTXOs(st, addr, Funds(addr, start, searchSize)),
                                Tail(addrsList), fromAddr, fromUTXOID, searchSize)

\* VM.getPaginatedUTXOs
getPaginatedUTXOs(as, fromAddr, fromUTXOID, lim) ==
    ScanAddrs([utxos |-> <<>>, seen |-> {}, limit |-> lim,
               lastAddr |-> ShortEmpty, lastIndex |-> Empty, stop |-> FALSE],
              Ascending(as), fromAddr, fromUTXOID, lim)

\* lines 614-626: append the ids that were not seen yet
RECURSIVE AppendUnseen(_, _)
AppendUnseen(st, utxoIDs) ==
    IF utxoIDs = <<>> THEN st
    ELSE LET utxoID == Head(utxoIDs)
             st1 == [st EXCEPT !.lastIndex = utxoID]
         IN  IF utxoID \in st1.seen
             THEN AppendUnseen(st1, Tail(utxoIDs))
             ELSE AppendUnseen([st1 EXCEPT !.utxos = Append(@, utxoID),
                                           !.seen = @ \cup {utxoID}], Tail(utxoIDs))

\* VM.getAllUniqueAddressUTXOs: fetch until the state returns nothing
RECURSIVE getAllUniqueAddressUTXOs(_, _)
getAllUniqueAddressUTXOs(st, addr) ==
    LET utxoIDs == Funds(addr, st.lastIndex, maxUTXOsToFetch)
    IN  IF utxoIDs = <<>> THEN st
        ELSE getAllUniqueAddressUTXOs(AppendUnseen(st, utxoIDs), addr)

\* lines 589-598: the loop over the sorted addresses
RECURSIVE AllAddrs(_, _)
AllAddrs(st, addrsList) ==
    IF addrsList = <<>> THEN st
    ELSE LET addr == Head(addrsList)
             st1 == getAllUniqueAddressUTXOs([st EXCEPT !.lastIndex = Empty], addr)
         IN  AllAddrs(IF st1.lastIndex # Empty THEN [st1 EXCEPT !.lastAddr = addr] ELSE st1,
                      Tail(addrsList))

\* VM.getAllUTXOs
getAllUTXOs(as) ==
    AllAddrs([utxos |-> <<>>, seen |-> {}, limit |-> maxUTXOsToFetch,
              lastAddr |-> ShortEmpty, lastIndex |-> Empty, stop |-> FALSE],
             Ascending(as))

\* VM.GetUTXOs: the fetched ids, the last address and the last id
GetUTXOs(as, fromAddr, fromUTXOID, lim, pag) ==
    LET l == IF lim <= 0 \/ lim > maxUTXOsToFetch THEN maxUTXOsToFetch ELSE lim
    IN  IF pag THEN getPaginatedUTXOs(as, fromAddr, fromUTXOID, l) ELSE getAllUTXOs(as)

(***************************************************************************)
(* vertex: Build (builder.go)                                              *)
(***************************************************************************)
noEpochTransitionsCodecVersion == "noEpochTransitionsCodecVersion"

apricotCodecVersion == "apricotCodecVersion"

\* no vertex was built yet
NoVertex == [built |-> FALSE]

\* the hash of a transition byte string: one to one, in an order that
\* differs from the order of the byte strings
HashOf(tr) == (tr * 5) % 7

\* hashing.ComputeHash256Array of the vertex bytes: one to one
ComputeHash256Array(bytes) == <<"hash256", bytes>>

\* ids.SortIDs: ascending
RECURSIVE InsertID(_, _)
InsertID(sorted, id) ==
    IF sorted = <<>> THEN <<id>>
    ELSE IF id < Head(sorted) THEN <<id>> \o sorted
    ELSE <<Head(sorted)>> \o InsertID(Tail(sorted), id)

RECURSIVE SortIDs(_)
SortIDs(idList) ==
    IF idList = <<>> THEN <<>> ELSE InsertID(SortIDs(Tail(idList)), Head(idList))

\* SortHashOf: ascending by the hash of each byte string
RECURSIVE InsertHashOf(_, _)
InsertHashOf(sorted, tr) ==
    IF sorted = <<>> THEN <<tr>>
    ELSE IF HashOf(tr) < HashOf(Head(sorted)) THEN <<tr>> \o sorted
    ELSE <<Head(sorted)>> \o InsertHashOf(Tail(sorted), tr)

RECURSIVE SortHashOf(_)
SortHashOf(trList) ==
    IF trList = <<>> THEN <<>> ELSE InsertHashOf(SortHashOf(Tail(trList)), Head(trList))

IsSortedAndUniqueIDs(idList) ==
    \A i \in 1..(Len(idList) - 1) : idList[i] < idList[i + 1]

IsSortedHashOf(trList) ==
    \A i \in 1..(Len(trList) - 1) : HashOf(trList[i]) <= HashOf(trList[i + 1])

\* innerStatelessVertex.Verify: parents and restrictions ascending and
\* unique, transitions sorted by hash
Verify(innerVtx) ==
    /\ IsSortedAndUniqueIDs(innerVtx.ParentIDs)
    /\ IsSortedHashOf(innerVtx.Transitions)
    /\ IsSortedAndUniqueIDs(innerVtx.Restrictions)

\* Codec.Marshal: the fields in the order of their declaration
Marshal(innerVtx) ==
    <<innerVtx.Version, innerVtx.ChainID, innerVtx.Height, innerVtx.Epoch,
      innerVtx.ParentIDs, innerVtx.Transitions, innerVtx.Restrictions>>

\* lines 36-47: the version from the epoch, and the inner vertex
InnerVertex(c, h, e, p, t, r) ==
    [Version |-> IF e = 0 THEN noEpochTransitionsCodecVersion ELSE apricotCodecVersion,
     ChainID |-> c, Height |-> h, Epoch |-> e,
     ParentIDs |-> p, Transitions |-> t, Restrictions |-> r]

\* lines 48-63: verify, marshal and hash
Finish(innerVtx) ==
    IF ~Verify(innerVtx)
    THEN [built |-> TRUE, err |-> TRUE]
    ELSE [built |-> TRUE, err |-> FALSE, innerStatelessVertex |-> innerVtx,
          id |-> ComputeHash256Array(Marshal(innerVtx)), bytes |-> Marshal(innerVtx)]

\* Build without lines 32-34: nothing is sorted
Build_Unsorted(c, h, e, p, t, r) == Finish(InnerVertex(c, h, e, p, t, r))

\* Build: the vertex, or the error of Verify
Build(c, h, e, p, t, r) ==
    Finish(InnerVertex(c, h, e, SortIDs(p), SortHashOf(t), SortIDs(r)))

(***************************************************************************)
(* avm: the batch timer and VM.Shutdown (vm.go)                            *)
(***************************************************************************)
batchSize == 30

\* the shared state the timer callback and the engine thread work on
VM == [armed |-> armed, vmTxs |-> vmTxs, toEngine |-> toEngine]

\* VM.FlushTxs: cancel the timeout; with pending txs notify the engine, or
\* set the timeout again when the channel is full
FlushTxs(vm) ==
    LET vm1 == [vm EXCEPT !.armed = FALSE]
    IN  IF vm1.vmTxs # 0
        THEN IF vm1.toEngine = 0
             THEN [vm1 EXCEPT !.toEngine = 1]
             ELSE [vm1 EXCEPT !.armed = TRUE]
        ELSE vm1

\* issueTx that leaves the timeout alone
issueTx_NoTimer(vm) ==
    LET vm1 == [vm EXCEPT !.vmTxs = @ + 1]
    IN  IF vm1.vmTxs = batchSize THEN FlushTxs(vm1) ELSE vm1

\* VM.issueTx
issueTx(vm) ==
    LET vm1 == [vm EXCEPT !.vmTxs = @ + 1]
    IN  IF vm1.vmTxs = batchSize THEN FlushTxs(vm1)
        ELSE IF vm1.vmTxs = 1 THEN [vm1 EXCEPT !.armed = TRUE]
        ELSE vm1

\* Pending that leaves the timeout running
Pending_KeepTimer(vm) == [vm EXCEPT !.vmTxs = 0]

\* VM.Pending: cancel the timeout and hand over the txs
Pending(vm) == [vm EXCEPT !.armed = FALSE, !.vmTxs = 0]

InstallVM(vm) ==
    /\ armed' = vm.armed
    /\ vmTxs' = vm.vmTxs
    /\ toEngine' = vm.toEngine

\* the VM before Initialize: no thread, no timer
IdleShutdown ==
    /\ ctxLock = "none"
    /\ pcEngine = "idle"
    /\ pcTimer = "exited"
    /\ armed = FALSE
    /\ finished = TRUE
    /\ vmTxs = 0
    /\ toEngine = 0
    /\ issued = 0
    /\ raced = FALSE
    /\ closed = FALSE

(***************************************************************************)
(* avm: semantic checks of managed assets (vm.go)                          *)
(***************************************************************************)
\* a uint32 is written <<high, low>> in two 16 bit halves
uint32Limb == 65536

MaxUint32 == <<uint32Limb - 1, uint32Limb - 1>>

\* x + n without a width, for a small n
AddWide(x, n) ==
    LET low == x[2] + n
    IN  <<x[1] + (low \div uint32Limb), low % uint32Limb>>

\* x + n in uint32: the carry out of the high half is dropped
Add32(x, n) ==
    LET wide == AddWide(x, n)
    IN  <<wide[1] % uint32Limb, wide[2]>>

\* x <= y
LessEq(x, y) == x[1] < y[1] \/ (x[1] = y[1] /\ x[2] <= y[2])

Epochs ==
    {<<0, k>> : k \in 0..MaxEpoch} \cup {<<MaxUint32[1], MaxUint32[2] - k>> : k \in 0..MaxEpoch}

UTXOOwner == "owner"
Managers == {"m1", "m2"}
Signers == {"owner", "m1", "other"}
Statuses == [frozen : BOOLEAN, manager : Managers]

Frozen(st) == st.frozen
Manager(st) == st.manager

\* fx.VerifyPermission: the credential is signed by the given owner
VerifyPermission(c, o) == c = o

\* the error of VM.verifyTransferOfUTXO, "nil" when there is none
verifyTransferOfUTXO(epoch) ==
    IF early \in {"errGetFx", "errAssetIDMismatch", "errIncompatibleFx", "errVerifyTransfer"}
    THEN early
    ELSE IF lookup = "notFound"
    THEN IF VerifyPermission(cred, UTXOOwner) THEN "nil" ELSE "errNoPermission"
    ELSE IF lookup = "dbError"
    THEN "errDatabase"
    ELSE LET st == IF LessEq(epoch, Add32(lastUpdatedEpoch, 1))
                   THEN oldStatus
                   ELSE assetStatus
         IN  IF Frozen(st)
             THEN "errFrozen"
             ELSE IF VerifyPermission(cred, UTXOOwner)
             THEN "nil"
             ELSE IF VerifyPermission(cred, Manager(st))
             THEN "nil"
             ELSE "errNoPermission"

\* the error of VM.verifyOperation, "nil" when there is none
verifyOperation(epoch) ==
    IF early \in {"errGetUTXO", "errAssetIDMismatch", "errGetFx", "errIncompatibleFx"}
    THEN early
    ELSE IF isUpdate /\ lookup # "managed"
    THEN "errManagedAssetStatus"
    ELSE IF isUpdate /\ LessEq(epoch, Add32(lastUpdatedEpoch, 1))
    THEN "errEpoch"
    ELSE IF fxOpOK THEN "nil" ELSE "errVerifyOperation"

\* no semantic check is running
IdleAsset ==
    /\ txEpoch = <<0, 0>>
    /\ lastUpdatedEpoch = <<0, 0>>
    /\ assetStatus = [frozen |-> FALSE, manager |-> "m1"]
    /\ oldStatus = [frozen |-> FALSE, manager |-> "m1"]
    /\ cred = "owner"
    /\ early = "ok"
    /\ lookup = "notFound"
    /\ isUpdate = FALSE
    /\ fxOpOK = TRUE
    /\ called = "none"
    /\ verdict = "none"

(***************************************************************************)
(* avalanche engine: issuer (issuer.go)                                    *)
(***************************************************************************)
\* the txs of the vertex, in the order of vtx.Txs()
VtxTxs == [i \in 1..MaxVtxTxs |-> i]

\* the issuer and the part of the engine it writes
Issuer ==
    [issued |-> issuerIssued, abandoned |-> abandoned, pending |-> vtxPending,
     errs |-> engineErrs, consensusHas |-> consensusHas, vtxBlocked |-> vtxBlocked,
     transitionsIssued |-> transitionsIssued, abandonedVertices |-> abandonedVertices,
     batches |-> batches, pushQueried |-> pushQueried, requestID |-> requestID,
     repolled |-> repolled, blockerCalls |-> blockerCalls, addCalls |-> addCalls,
     queries |-> queries]

\* t.batch(epoch, trs, restrictions, force, empty, updatedEpoch): the call is
\* recorded; its error goes to t.errs
Batch(s, epoch, batchTrs, batchRestrictions, force) ==
    [s EXCEPT !.batches = Append(@, [epoch |-> epoch, trs |-> batchTrs,
                                     restrictions |-> batchRestrictions,
                                     force |-> force, empty |-> FALSE,
                                     updatedEpoch |-> TRUE]),
              !.errs = @ \/ fail = "batch"]

validTransitions == SelectSeq(VtxTxs, LAMBDA tx : verifyOK[tx])

invalidTransitions == SelectSeq(VtxTxs, LAMBDA tx : ~verifyOK[tx])

unissuedTransitions == SelectSeq(validTransitions, LAMBDA tx : tx \notin processingTrs)

\* the issue of a vertex whatever its epoch
Issue_AddFuture(s) ==
    LET reissue == epochOfVtx # currentEpoch /\ unissuedTransitions # <<>>
        s1 == IF reissue THEN Batch(s, currentEpoch, unissuedTransitions, <<>>, TRUE) ELSE s
    IN  IF reissue /\ fail = "batch"
        THEN s1
        ELSE IF fail = "add"
        THEN [s1 EXCEPT !.errs = TRUE, !.addCalls = @ + 1]
        ELSE [s1 EXCEPT !.consensusHas = TRUE,
                        !.addCalls = @ + 1,
                        !.requestID = @ + 1,
                        !.pushQueried = fail \notin {"sample", "polls"},
                        !.queries = IF fail \notin {"sample", "polls"}
                                    THEN Append(@, s1.requestID + 1)
                                    ELSE @,
                        !.vtxBlocked = "fulfilled",
                        !.blockerCalls = Append(@, "Fulfill"),
                        !.transitionsIssued = TRUE,
                        !.repolled = TRUE,
                        !.errs = @ \/ fail = "repoll"]

\* the issue of a vertex that reissues every valid transition when the
\* epochs differ
Issue_ReissueValid(s) ==
    LET reissue == epochOfVtx # currentEpoch
        s1 == IF reissue THEN Batch(s, currentEpoch, validTransitions, <<>>, TRUE) ELSE s
    IN  IF reissue /\ fail = "batch"
        THEN s1
        ELSE IF epochOfVtx > currentEpoch
        THEN [s1 EXCEPT !.abandonedVertices = TRUE, !.vtxBlocked = "abandoned",
                        !.blockerCalls = Append(@, "Abandon")]
        ELSE IF fail = "add"
        THEN [s1 EXCEPT !.errs = TRUE, !.addCalls = @ + 1]
        ELSE [s1 EXCEPT !.consensusHas = TRUE,
                        !.addCalls = @ + 1,
                        !.requestID = @ + 1,
                        !.pushQueried = fail \notin {"sample", "polls"},
                        !.queries = IF fail \notin {"sample", "polls"}
                                    THEN Append(@, s1.requestID + 1)
                                    ELSE @,
                        !.vtxBlocked = "fulfilled",
                        !.blockerCalls = Append(@, "Fulfill"),
                        !.transitionsIssued = TRUE,
                        !.repolled = TRUE,
                        !.errs = @ \/ fail = "repoll"]

\* the issue of a vertex that notifies the waiters whatever Consensus.Add
\* returns
Issue_FulfillOnAddError(s) ==
    LET reissue == epochOfVtx # currentEpoch /\ unissuedTransitions # <<>>
        s1 == IF reissue THEN Batch(s, currentEpoch, unissuedTransitions, <<>>, TRUE) ELSE s
    IN  IF reissue /\ fail = "batch"
        THEN s1
        ELSE IF epochOfVtx > currentEpoch
        THEN [s1 EXCEPT !.abandonedVertices = TRUE, !.vtxBlocked = "abandoned",
                        !.blockerCalls = Append(@, "Abandon")]
        ELSE [s1 EXCEPT !.consensusHas = fail # "add",
                        !.addCalls = @ + 1,
                        !.requestID = @ + 1,
                        !.pushQueried = fail \notin {"sample", "polls"},
                        !.queries = IF fail \notin {"sample", "polls"}
                                    THEN Append(@, s1.requestID + 1)
                                    ELSE @,
                        !.vtxBlocked = "fulfilled",
                        !.blockerCalls = Append(@, "Fulfill"),
                        !.transitionsIssued = TRUE,
                        !.repolled = TRUE,
                        !.errs = @ \/ fail \in {"repoll", "add"}]

\* the issue of a vertex that queries under the RequestID it finds
Issue_KeepRequestID(s) ==
    LET reissue == epochOfVtx # currentEpoch /\ unissuedTransitions # <<>>
        s1 == IF reissue THEN Batch(s, currentEpoch, unissuedTransitions, <<>>, TRUE) ELSE s
    IN  IF reissue /\ fail = "batch"
        THEN s1
        ELSE IF epochOfVtx > currentEpoch
        THEN [s1 EXCEPT !.abandonedVertices = TRUE, !.vtxBlocked = "abandoned",
                        !.blockerCalls = Append(@, "Abandon")]
        ELSE IF fail = "add"
        THEN [s1 EXCEPT !.errs = TRUE, !.addCalls = @ + 1]
        ELSE [s1 EXCEPT !.consensusHas = TRUE,
                        !.addCalls = @ + 1,
                        !.pushQueried = fail \notin {"sample", "polls"},
                        !.queries = IF fail \notin {"sample", "polls"}
                                    THEN Append(@, s1.requestID)
                                    ELSE @,
                        !.vtxBlocked = "fulfilled",
                        !.blockerCalls = Append(@, "Fulfill"),
                        !.transitionsIssued = TRUE,
                        !.repolled = TRUE,
                        !.errs = @ \/ fail = "repoll"]

\* issuer.Update from line 140 on: all txs verified
Issue(s) ==
    LET reissue == epochOfVtx # currentEpoch /\ unissuedTransitions # <<>>
        s1 == IF reissue THEN Batch(s, currentEpoch, unissuedTransitions, <<>>, TRUE) ELSE s
    IN  IF reissue /\ fail = "batch"
        THEN s1
        ELSE IF epochOfVtx > currentEpoch
        THEN [s1 EXCEPT !.abandonedVertices = TRUE, !.vtxBlocked = "abandoned",
                        !.blockerCalls = Append(@, "Abandon")]
        ELSE IF fail = "add"
        THEN [s1 EXCEPT !.errs = TRUE, !.addCalls = @ + 1]
        ELSE [s1 EXCEPT !.consensusHas = TRUE,
                        !.addCalls = @ + 1,
                        !.requestID = @ + 1,
                        !.pushQueried = fail \notin {"sample", "polls"},
                        !.queries = IF fail \notin {"sample", "polls"}
                                    THEN Append(@, s1.requestID + 1)
                                    ELSE @,
                        !.vtxBlocked = "fulfilled",
                        !.blockerCalls = Append(@, "Fulfill"),
                        !.transitionsIssued = TRUE,
                        !.repolled = TRUE,
                        !.errs = @ \/ fail = "repoll"]

\* issuer.Update that adds a vertex whatever its txs verify to
Update_SkipVerify(s, vDeps, uDeps) ==
    IF s.abandoned \/ s.issued \/ vDeps # {} \/ uDeps # {} \/ s.consensusHas \/ s.errs
    THEN s
    ELSE LET s1 == [s EXCEPT !.issued = TRUE, !.pending = FALSE]
         IN  IF fail \in {"txs", "epoch"}
             THEN [s1 EXCEPT !.errs = TRUE]
             ELSE Issue(s1)

\* issuer.Update that does not look at the error collector
Update_IgnoreErrs(s, vDeps, uDeps) ==
    IF s.abandoned \/ s.issued \/ vDeps # {} \/ uDeps # {} \/ s.consensusHas
    THEN s
    ELSE LET s1 == [s EXCEPT !.issued = TRUE, !.pending = FALSE]
         IN  IF fail \in {"txs", "epoch"}
             THEN [s1 EXCEPT !.errs = TRUE]
             ELSE IF Len(validTransitions) # Len(VtxTxs)
             THEN [Batch(s1, epochOfVtx, validTransitions,
                         IF updatedEpoch THEN <<invalidTransitions>> ELSE <<>>, FALSE)
                     EXCEPT !.abandonedVertices = TRUE, !.vtxBlocked = "abandoned",
                            !.blockerCalls = Append(@, "Abandon")]
             ELSE Issue(s1)

\* issuer.Update that does not look at the abandoned flag
Update_IgnoreAbandoned(s, vDeps, uDeps) ==
    IF s.issued \/ vDeps # {} \/ uDeps # {} \/ s.consensusHas \/ s.errs
    THEN s
    ELSE LET s1 == [s EXCEPT !.issued = TRUE, !.pending = FALSE]
         IN  IF fail \in {"txs", "epoch"}
             THEN [s1 EXCEPT !.errs = TRUE]
             ELSE IF Len(validTransitions) # Len(VtxTxs)
             THEN [Batch(s1, epochOfVtx, validTransitions,
                         IF updatedEpoch THEN <<invalidTransitions>> ELSE <<>>, FALSE)
                     EXCEPT !.abandonedVertices = TRUE, !.vtxBlocked = "abandoned",
                            !.blockerCalls = Append(@, "Abandon")]
             ELSE Issue(s1)

\* issuer.Update
Update(s, vDeps, uDeps) ==
    IF s.abandoned \/ s.issued \/ vDeps # {} \/ uDeps # {} \/ s.consensusHas \/ s.errs
    THEN s
    ELSE LET s1 == [s EXCEPT !.issued = TRUE, !.pending = FALSE]
         IN  IF fail \in {"txs", "epoch"}
             THEN [s1 EXCEPT !.errs = TRUE]
             ELSE IF Len(validTransitions) # Len(VtxTxs)
             THEN [Batch(s1, epochOfVtx, validTransitions,
                         IF updatedEpoch THEN <<invalidTransitions>> ELSE <<>>, FALSE)
                     EXCEPT !.abandonedVertices = TRUE, !.vtxBlocked = "abandoned",
                            !.blockerCalls = Append(@, "Abandon")]
             ELSE Issue(s1)

\* issuer.Abandon
Abandon(s) ==
    IF ~s.abandoned
    THEN [s EXCEPT !.pending = FALSE, !.abandoned = TRUE, !.vtxBlocked = "abandoned",
                   !.blockerCalls = Append(@, "Abandon")]
    ELSE s

InstallIssuer(s) ==
    /\ issuerIssued' = s.issued
    /\ abandoned' = s.abandoned
    /\ vtxPending' = s.pending
    /\ engineErrs' = s.errs
    /\ consensusHas' = s.consensusHas
    /\ vtxBlocked' = s.vtxBlocked
    /\ transitionsIssued' = s.transitionsIssued
    /\ abandonedVertices' = s.abandonedVertices
    /\ batches' = s.batches
    /\ pushQueried' = s.pushQueried
    /\ requestID' = s.requestID
    /\ repolled' = s.repolled
    /\ blockerCalls' = s.blockerCalls
    /\ addCalls' = s.addCalls
    /\ queries' = s.queries

\* no vertex waits to be issued
IdleIssuer ==
    /\ vtxDeps = {}
    /\ unfulfilledDeps = {}
    /\ updatedEpoch = FALSE
    /\ verifyOK = <<>>
    /\ processingTrs = {}
    /\ epochOfVtx = 0
    /\ currentEpoch = 0
    /\ fail = "none"
    /\ issuerIssued = FALSE
    /\ abandoned = FALSE
    /\ vtxPending = FALSE
    /\ engineErrs = FALSE
    /\ consensusHas = FALSE
    /\ vtxBlocked = "waiting"
    /\ transitionsIssued = FALSE
    /\ abandonedVertices = FALSE
    /\ batches = <<>>
    /\ pushQueried = FALSE
    /\ requestID = 0
    /\ repolled = FALSE
    /\ blockerCalls = <<>>
    /\ addCalls = 0
    /\ queries = <<>>
    /\ lastCall = "none"

\* the order of the additions is not recorded
IdleOrder == inserted = <<>>

\* the engine has received no notification
IdleBatch == notified = 0 /\ returned = 0

IdleLater == IdleShutdown /\ IdleAsset /\ IdleOrder /\ IdleIssuer /\ IdleBatch

(***************************************************************************)
(* Initial states and actions                                              *)
(***************************************************************************)
\* the graph right after Initialize, for one pair of betas
InitGraph ==
    /\ \E b \in Betas : betaVirtuous = b[1] /\ betaRogue = b[2]
    /\ status = [t \in DOMAIN fixture.inputs |-> Processing]
    /\ trStatus = [t \in DOMAIN fixture.inputs |-> Processing]
    /\ trEpoch = [t \in DOMAIN fixture.inputs |-> -1]
    /\ txs = {}
    /\ utxos = <<>>
    /\ acceptors = <<>>
    /\ rejectors = <<>>
    /\ pendingAccept = <<>>
    /\ pendingReject = <<>>
    /\ acceptable = <<>>
    /\ rejectable = <<>>
    /\ nodes = <<>>
    /\ virtuous = {}
    /\ virtuousVoting = {}
    /\ preferences = {}
    /\ currentVote = 0
    /\ changed = FALSE
    /\ errs = FALSE
    /\ calls = <<>>
    /\ votes = {}

\* no client of the avm
IdleUTXOs ==
    /\ funds = <<>>
    /\ addrs = {}
    /\ limit = maxUTXOsToFetch
    /\ paginate = FALSE
    /\ startAddr = ShortEmpty
    /\ startUTXOID = Empty
    /\ fetched = <<>>
    /\ done = TRUE

\* no call of Build
IdleVertex ==
    /\ chainID = "chain"
    /\ height = 0
    /\ vertexEpoch = 0
    /\ parentIDs = <<>>
    /\ trs = <<>>
    /\ restrictions = <<>>
    /\ args = <<>>
    /\ vtx = NoVertex

\* any fixture; no callback of any tx returns an error
Init ==
    /\ fixture \in Fixtures
    /\ acceptV = {}
    /\ rejectV = {}
    /\ InitGraph
    /\ IdleUTXOs
    /\ IdleVertex
    /\ IdleLater

\* the fixtures of the error tests: one tx of the fixture has AcceptV or
\* RejectV set (ErrorOnAcceptedTest, ErrorOnRejecting...ConflictTest)
InitErr ==
    /\ fixture \in {FixtureColors, FixtureRejectingSlowDependency}
    /\ \E t \in DOMAIN fixture.inputs :
          \/ acceptV = {t} /\ rejectV = {}
          \/ acceptV = {} /\ rejectV = {t}
    /\ InitGraph
    /\ IdleUTXOs
    /\ IdleVertex
    /\ IdleLater

InstallGraph(w) ==
    /\ status' = w.status
    /\ trStatus' = w.trStatus
    /\ trEpoch' = w.trEpoch
    /\ txs' = w.txs
    /\ utxos' = w.utxos
    /\ acceptors' = w.acceptors
    /\ rejectors' = w.rejectors
    /\ pendingAccept' = w.pendingAccept
    /\ pendingReject' = w.pendingReject
    /\ acceptable' = w.acceptable
    /\ rejectable' = w.rejectable
    /\ nodes' = w.nodes
    /\ virtuous' = w.virtuous
    /\ virtuousVoting' = w.virtuousVoting
    /\ preferences' = w.preferences
    /\ currentVote' = w.currentVote
    /\ changed' = w.changed
    /\ errs' = w.errs
    /\ calls' = w.calls
    /\ votes' = w.votes
    /\ UNCHANGED <<fixture, betaVirtuous, betaRogue, acceptV, rejectV>>

Install(w) == InstallGraph(w) /\ UNCHANGED <<utxoVars, vertexVars, laterVars>>

\* the engine issues a tx to consensus after its dependencies were issued
\* (issuer.unfulfilledDeps) and after the tx verified: none of its
\* dependencies is rejected or presented in a later epoch, and none of its
\* inputs was consumed by an accepted tx
Valid(tx) ==
    /\ \A d \in Dependencies(tx) :
          Issued(World, d) /\ trStatus[d] # Rejected /\ Epoch(d) <= Epoch(tx)
    /\ \A t \in Txs : status[t] = Accepted => InputIDs(t) \cap InputIDs(tx) = {}

\* the poll bags: the number of votes, out of K, for every id. Alpha is more
\* than half of K and no voter prefers two txs that spend a common input,
\* so the ids that reach Alpha never conflict with one another
Bags ==
    {bag \in [Txs -> 0..K] :
        \A a, b \in Threshold(bag) : a # b => InputIDs(a) \cap InputIDs(b) = {}}

\* graph.Add(tx) of a valid tx that was not issued yet
AddTx(tx) ==
    /\ ~errs
    /\ ~Issued(World, tx)
    /\ Valid(tx)
    /\ Install(GraphAdd(World, tx))

\* graph.RecordPoll(bag); ord is the order in which the runtime iterates
\* the sets of ids during the call
RecordPollBag(bag, ord) ==
    /\ ~errs
    /\ currentVote < MaxPolls
    /\ Install(RecordPoll(World, bag, ord))

Next ==
    \/ \E tx \in Txs : AddTx(tx)
    \/ \E bag \in Bags, ord \in Orders : RecordPollBag(bag, ord)

Spec == Init /\ [][Next]_vars

SpecErr == InitErr /\ [][Next]_vars

\* an empty graph next to the avm
IdleGraph ==
    /\ fixture = FixtureColors
    /\ acceptV = {}
    /\ rejectV = {}
    /\ InitGraph
    /\ betaRogue = betaVirtuous

graphVars ==
    <<fixture, betaVirtuous, betaRogue, acceptV, rejectV, status, trStatus, trEpoch,
      txs, utxos, acceptors, rejectors, pendingAccept, pendingReject, acceptable, rejectable,
      nodes, virtuous, virtuousVoting, preferences, currentVote, changed, errs, calls, votes>>

\* a state of the avm and a client that starts to fetch the UTXOs of some
\* addresses, without a cursor
InitUTXOs ==
    /\ IdleGraph
    /\ funds \in [Addrs -> SUBSET UTXOIDs]
    /\ addrs \in (SUBSET Addrs) \ {{}}
    /\ limit \in 0..MaxLimit
    /\ paginate \in BOOLEAN
    /\ startAddr = ShortEmpty
    /\ startUTXOID = Empty
    /\ IdleVertex
    /\ IdleLater
    /\ fetched = [u \in UTXOIDs |-> 0]
    /\ done = FALSE

\* the number of times the id occurs in the page
Occurrences(page, u) == Cardinality({i \in DOMAIN page : page[i] = u})

\* the client calls GetUTXOs in paginated mode with the cursor the last call
\* returned, and stops when the page is empty
NextPage ==
    /\ paginate
    /\ ~done
    /\ LET r == GetUTXOs(addrs, startAddr, startUTXOID, limit, TRUE)
       IN  IF r.utxos = <<>>
           THEN done' = TRUE /\ UNCHANGED <<startAddr, startUTXOID, fetched>>
           ELSE /\ fetched' = [u \in UTXOIDs |-> fetched[u] + Occurrences(r.utxos, u)]
                /\ startAddr' = r.lastAddr
                /\ startUTXOID' = r.lastIndex
                /\ UNCHANGED done
    /\ UNCHANGED <<funds, addrs, limit, paginate, graphVars, vertexVars, laterVars>>

\* the client fetches everything with one call that does not paginate
FetchAll ==
    /\ ~paginate
    /\ ~done
    /\ LET r == GetUTXOs(addrs, startAddr, startUTXOID, limit, FALSE)
       IN  /\ fetched' = [u \in UTXOIDs |-> fetched[u] + Occurrences(r.utxos, u)]
           /\ startAddr' = r.lastAddr
           /\ startUTXOID' = r.lastIndex
           /\ done' = TRUE
    /\ UNCHANGED <<funds, addrs, limit, paginate, graphVars, vertexVars, laterVars>>

NextUTXOs == NextPage \/ FetchAll

SpecUTXOs == InitUTXOs /\ [][NextUTXOs]_vars

\* the lists of at most MaxLen ids
Lists == UNION {[1..n -> 1..MaxID] : n \in 0..MaxLen}

\* the arguments of a call of Build, in any order and with repetitions
InitVertex ==
    /\ IdleGraph
    /\ IdleUTXOs
    /\ IdleLater
    /\ chainID = "chain"
    /\ height \in {0, 1}
    /\ vertexEpoch \in {0, 1}
    /\ parentIDs \in Lists
    /\ trs \in Lists
    /\ restrictions \in Lists
    /\ args = <<>>
    /\ vtx = NoVertex

\* Build(chainID, height, vertexEpoch, parentIDs, trs, restrictions); the three
\* slices of the caller are sorted in place
BuildVertex ==
    /\ vtx = NoVertex
    /\ vtx' = Build(chainID, height, vertexEpoch, parentIDs, trs, restrictions)
    /\ args' = [parentIDs |-> parentIDs, trs |-> trs, restrictions |-> restrictions]
    /\ parentIDs' = SortIDs(parentIDs)
    /\ trs' = SortHashOf(trs)
    /\ restrictions' = SortIDs(restrictions)
    /\ UNCHANGED <<chainID, height, vertexEpoch, graphVars, utxoVars, laterVars>>

NextVertex == BuildVertex

SpecVertex == InitVertex /\ [][NextVertex]_vars

\* the VM after Initialize: the dispatcher goroutine runs, no tx is pending
InitShutdown ==
    /\ IdleGraph
    /\ IdleUTXOs
    /\ IdleVertex
    /\ IdleAsset
    /\ IdleOrder
    /\ IdleIssuer
    /\ IdleBatch
    /\ ctxLock = "none"
    /\ pcEngine = "idle"
    /\ pcTimer = "waiting"
    /\ armed = FALSE
    /\ finished = FALSE
    /\ vmTxs = 0
    /\ toEngine \in {0, 1}
    /\ issued = 0
    /\ raced = FALSE
    /\ closed = FALSE

shutdownFrame == <<graphVars, utxoVars, vertexVars, assetVars, inserted, issuerVars, batchVars>>

\* the engine takes the context lock before it calls the VM
EngineLock ==
    /\ pcEngine = "idle"
    /\ ctxLock = "none"
    /\ ctxLock' = "engine"
    /\ pcEngine' = "locked"
    /\ UNCHANGED <<pcTimer, armed, finished, vmTxs, toEngine, issued, raced, closed, shutdownFrame>>

EngineUnlock ==
    /\ pcEngine = "locked"
    /\ ctxLock' = "none"
    /\ pcEngine' = "idle"
    /\ UNCHANGED <<pcTimer, armed, finished, vmTxs, toEngine, issued, raced, closed, shutdownFrame>>

\* issueTx, called with the lock held
EngineIssueTx ==
    /\ pcEngine = "locked"
    /\ issued < MaxIssued
    /\ issued' = issued + 1
    /\ InstallVM(issueTx(VM))
    /\ UNCHANGED <<ctxLock, pcEngine, pcTimer, finished, raced, closed, shutdownFrame>>

\* the engine takes the message from the channel and calls Pending
EnginePending ==
    /\ pcEngine = "locked"
    /\ toEngine = 1
    /\ InstallVM(Pending([VM EXCEPT !.toEngine = 0]))
    /\ UNCHANGED <<ctxLock, pcEngine, pcTimer, finished, issued, raced, closed, shutdownFrame>>

\* Shutdown without line 340: the timer is stopped with the lock held
ShutdownUnlock_KeepLock ==
    /\ pcEngine = "locked"
    /\ pcEngine' = "stopping"
    /\ raced' = (pcTimer = "fired")
    /\ UNCHANGED <<ctxLock, pcTimer, armed, finished, vmTxs, toEngine, issued, closed, shutdownFrame>>

\* Shutdown, line 340: release the lock
ShutdownUnlock ==
    /\ pcEngine = "locked"
    /\ ctxLock' = "none"
    /\ pcEngine' = "stopping"
    /\ raced' = (pcTimer = "fired")
    /\ UNCHANGED <<pcTimer, armed, finished, vmTxs, toEngine, issued, closed, shutdownFrame>>

\* Shutdown, line 341: timer.Stop marks the timer as stopped ...
ShutdownStop ==
    /\ pcEngine = "stopping"
    /\ finished' = TRUE
    /\ pcEngine' = "waiting"
    /\ UNCHANGED <<ctxLock, pcTimer, armed, vmTxs, toEngine, issued, raced, closed, shutdownFrame>>

\* ... and returns when the dispatcher has returned
ShutdownWait ==
    /\ pcEngine = "waiting"
    /\ pcTimer = "exited"
    /\ pcEngine' = "relock"
    /\ UNCHANGED <<ctxLock, pcTimer, armed, finished, vmTxs, toEngine, issued, raced, closed, shutdownFrame>>

\* Shutdown, line 342: take the lock again
ShutdownLock ==
    /\ pcEngine = "relock"
    /\ ctxLock = "none"
    /\ ctxLock' = "engine"
    /\ pcEngine' = "closing"
    /\ UNCHANGED <<pcTimer, armed, finished, vmTxs, toEngine, issued, raced, closed, shutdownFrame>>

\* Shutdown, line 344: close the database
ShutdownClose ==
    /\ pcEngine = "closing"
    /\ closed' = TRUE
    /\ pcEngine' = "done"
    /\ UNCHANGED <<ctxLock, pcTimer, armed, finished, vmTxs, toEngine, issued, raced, shutdownFrame>>

\* the timeout elapses: the dispatcher is about to call the callback
TimerFire ==
    /\ pcTimer = "waiting"
    /\ armed
    /\ ~finished
    /\ armed' = FALSE
    /\ pcTimer' = "fired"
    /\ UNCHANGED <<ctxLock, pcEngine, finished, vmTxs, toEngine, issued, raced, closed, shutdownFrame>>

\* the callback, line 290: take the context lock
TimerLock ==
    /\ pcTimer = "fired"
    /\ ctxLock = "none"
    /\ ctxLock' = "timer"
    /\ pcTimer' = "flushing"
    /\ UNCHANGED <<pcEngine, armed, finished, vmTxs, toEngine, issued, raced, closed, shutdownFrame>>

\* the callback, line 293: FlushTxs
TimerFlush ==
    /\ pcTimer = "flushing"
    /\ InstallVM(FlushTxs(VM))
    /\ pcTimer' = "unlocking"
    /\ UNCHANGED <<ctxLock, pcEngine, finished, issued, raced, closed, shutdownFrame>>

\* the callback, line 291: the deferred unlock
TimerUnlock ==
    /\ pcTimer = "unlocking"
    /\ ctxLock' = "none"
    /\ pcTimer' = "waiting"
    /\ UNCHANGED <<pcEngine, armed, finished, vmTxs, toEngine, issued, raced, closed, shutdownFrame>>

\* the dispatcher returns once the timer was stopped
TimerExit ==
    /\ pcTimer = "waiting"
    /\ finished
    /\ pcTimer' = "exited"
    /\ UNCHANGED <<ctxLock, pcEngine, armed, finished, vmTxs, toEngine, issued, raced, closed, shutdownFrame>>

NextShutdown ==
    \/ EngineLock
    \/ EngineUnlock
    \/ EngineIssueTx
    \/ EnginePending
    \/ ShutdownUnlock
    \/ ShutdownStop
    \/ ShutdownWait
    \/ ShutdownLock
    \/ ShutdownClose
    \/ TimerFire
    \/ TimerLock
    \/ TimerFlush
    \/ TimerUnlock
    \/ TimerExit

SpecShutdown == InitShutdown /\ [][NextShutdown]_vars

\* a tx of some epoch, an asset with some status history, some credential
InitAsset ==
    /\ IdleGraph
    /\ IdleUTXOs
    /\ IdleVertex
    /\ IdleShutdown
    /\ IdleOrder
    /\ IdleIssuer
    /\ IdleBatch
    /\ txEpoch \in Epochs
    /\ lastUpdatedEpoch \in Epochs
    /\ assetStatus \in Statuses
    /\ oldStatus \in Statuses
    /\ cred \in Signers
    /\ early \in {"ok", "errGetUTXO", "errAssetIDMismatch", "errGetFx", "errIncompatibleFx",
                  "errVerifyTransfer"}
    /\ lookup \in {"managed", "notFound", "dbError"}
    /\ isUpdate \in BOOLEAN
    /\ fxOpOK \in BOOLEAN
    /\ called = "none"
    /\ verdict = "none"

assetFrame ==
    <<txEpoch, lastUpdatedEpoch, assetStatus, oldStatus, cred, early, lookup, isUpdate,
      fxOpOK, graphVars, utxoVars, vertexVars, shutdownVars, inserted, issuerVars, batchVars>>

VerifyTransfer ==
    /\ called = "none"
    /\ called' = "transfer"
    /\ verdict' = verifyTransferOfUTXO(txEpoch)
    /\ UNCHANGED assetFrame

VerifyOperation ==
    /\ called = "none"
    /\ called' = "operation"
    /\ verdict' = verifyOperation(txEpoch)
    /\ UNCHANGED assetFrame

NextAsset ==
    \/ VerifyTransfer
    \/ VerifyOperation

SpecAsset == InitAsset /\ [][NextAsset]_vars

\* the fixtures of the Red / Green conflict, with the order of the
\* additions recorded
InitOrdered ==
    /\ fixture \in {FixtureColors, FixtureChain}
    /\ acceptV = {}
    /\ rejectV = {}
    /\ InitGraph
    /\ IdleUTXOs
    /\ IdleVertex
    /\ IdleShutdown
    /\ IdleAsset
    /\ IdleIssuer
    /\ IdleBatch
    /\ inserted = <<>>

\* graph.Add(tx), recorded
AddTxOrdered(tx) ==
    /\ ~errs
    /\ ~Issued(World, tx)
    /\ Valid(tx)
    /\ InstallGraph(GraphAdd(World, tx))
    /\ inserted' = Append(inserted, tx)
    /\ UNCHANGED <<utxoVars, vertexVars, shutdownVars, assetVars, issuerVars, batchVars>>

NextOrdered ==
    \/ \E tx \in Txs : AddTxOrdered(tx)
    \/ \E bag \in Bags, ord \in Orders : RecordPollBag(bag, ord)

SpecOrdered == InitOrdered /\ [][NextOrdered]_vars

\* an issuer that was registered for a vertex: the vertex is pending, it
\* waits for at most one parent vertex and one transition
InitIssuer ==
    /\ IdleGraph
    /\ IdleUTXOs
    /\ IdleVertex
    /\ IdleShutdown
    /\ IdleAsset
    /\ IdleOrder
    /\ IdleBatch
    /\ vtxDeps \in SUBSET {"parent"}
    /\ unfulfilledDeps \in SUBSET {"dependency"}
    /\ updatedEpoch \in BOOLEAN
    /\ verifyOK \in [1..MaxVtxTxs -> BOOLEAN]
    /\ processingTrs \in SUBSET (1..MaxVtxTxs)
    /\ epochOfVtx \in 0..MaxCurrentEpoch
    /\ currentEpoch \in 0..MaxCurrentEpoch
    /\ fail \in {"none", "txs", "epoch", "batch", "add", "sample", "polls", "repoll"}
    /\ issuerIssued = FALSE
    /\ abandoned = FALSE
    /\ vtxPending = TRUE
    /\ engineErrs = FALSE
    /\ consensusHas = FALSE
    /\ vtxBlocked = "waiting"
    /\ transitionsIssued = FALSE
    /\ abandonedVertices = FALSE
    /\ batches = <<>>
    /\ pushQueried = FALSE
    /\ requestID = 0
    /\ repolled = FALSE
    /\ blockerCalls = <<>>
    /\ addCalls = 0
    /\ queries = <<>>
    /\ lastCall = "none"

issuerFrame ==
    <<issuerInputs, graphVars, utxoVars, vertexVars, shutdownVars, assetVars, inserted,
      batchVars>>

\* issuer.FulfillVtx
FulfillVtx(id) ==
    /\ id \in vtxDeps
    /\ vtxDeps' = vtxDeps \ {id}
    /\ InstallIssuer(Update(Issuer, vtxDeps \ {id}, unfulfilledDeps))
    /\ lastCall' = "FulfillVtx"
    /\ UNCHANGED <<unfulfilledDeps, issuerFrame>>

\* issuer.FulfillTr
FulfillTr(id) ==
    /\ id \in unfulfilledDeps
    /\ unfulfilledDeps' = unfulfilledDeps \ {id}
    /\ InstallIssuer(Update(Issuer, vtxDeps, unfulfilledDeps \ {id}))
    /\ lastCall' = "FulfillTr"
    /\ UNCHANGED <<vtxDeps, issuerFrame>>

\* vtxIssuer.Abandon, trIssuer.Abandon
AbandonIssuer ==
    /\ InstallIssuer(Abandon(Issuer))
    /\ lastCall' = "Abandon"
    /\ UNCHANGED <<vtxDeps, unfulfilledDeps, issuerFrame>>

\* vtxIssuer.Update, trIssuer.Update
UpdateIssuer ==
    /\ InstallIssuer(Update(Issuer, vtxDeps, unfulfilledDeps))
    /\ lastCall' = "Update"
    /\ UNCHANGED <<vtxDeps, unfulfilledDeps, issuerFrame>>

\* another issuer adds the same vertex to consensus
OtherIssuerAdds ==
    /\ ~consensusHas
    /\ consensusHas' = TRUE
    /\ lastCall' = "other"
    /\ UNCHANGED <<vtxDeps, unfulfilledDeps, issuerFrame, issuerIssued, abandoned, vtxPending,
                   engineErrs, vtxBlocked, transitionsIssued, abandonedVertices, batches,
                   pushQueried, requestID, repolled, blockerCalls, addCalls, queries>>

\* an operation of the engine puts an error into t.errs
EngineErrors ==
    /\ ~engineErrs
    /\ engineErrs' = TRUE
    /\ lastCall' = "other"
    /\ UNCHANGED <<vtxDeps, unfulfilledDeps, issuerFrame, issuerIssued, abandoned, vtxPending,
                   consensusHas, vtxBlocked, transitionsIssued, abandonedVertices, batches,
                   pushQueried, requestID, repolled, blockerCalls, addCalls, queries>>

\* another issuer adds its own vertex and push-queries it
OtherIssuerQueries ==
    /\ ~engineErrs
    /\ Len(queries) - (IF pushQueried THEN 1 ELSE 0) < MaxQueries
    /\ requestID' = requestID + 1
    /\ queries' = Append(queries, requestID + 1)
    /\ lastCall' = "other"
    /\ UNCHANGED <<vtxDeps, unfulfilledDeps, issuerFrame, issuerIssued, abandoned, vtxPending,
                   engineErrs, consensusHas, vtxBlocked, transitionsIssued, abandonedVertices,
                   batches, pushQueried, repolled, blockerCalls, addCalls>>

NextIssuer ==
    \/ \E id \in {"parent"} : FulfillVtx(id)
    \/ \E id \in {"dependency"} : FulfillTr(id)
    \/ AbandonIssuer
    \/ UpdateIssuer
    \/ OtherIssuerAdds
    \/ OtherIssuerQueries
    \/ EngineErrors

SpecIssuer == InitIssuer /\ [][NextIssuer]_vars

\* the VM after Initialize, with an empty buffer and an empty channel; API
\* calls issue txs, the dispatcher of the timer runs the callback and the
\* engine handles the notifications, each under the context lock
InitBatch ==
    /\ IdleGraph
    /\ IdleUTXOs
    /\ IdleVertex
    /\ IdleAsset
    /\ IdleOrder
    /\ IdleIssuer
    /\ ctxLock = "none"
    /\ pcEngine = "idle"
    /\ pcTimer = "waiting"
    /\ armed = FALSE
    /\ finished = FALSE
    /\ vmTxs = 0
    /\ toEngine = 0
    /\ issued = 0
    /\ raced = FALSE
    /\ closed = FALSE
    /\ notified = 0
    /\ returned = 0

batchFrame ==
    <<ctxLock, pcEngine, pcTimer, finished, issued, raced, closed,
      graphVars, utxoVars, vertexVars, assetVars, inserted, issuerVars>>

\* an API call issues a tx: issueTx with the context lock held
BatchIssueTx ==
    /\ ctxLock = "none"
    /\ vmTxs < MaxBuffered
    /\ InstallVM(issueTx(VM))
    /\ UNCHANGED <<batchVars, batchFrame>>

\* the engine takes a PendingTxs message from the channel; it handles one
\* message at a time
EngineReceive ==
    /\ toEngine = 1
    /\ notified = 0
    /\ toEngine' = 0
    /\ notified' = 1
    /\ UNCHANGED <<armed, vmTxs, returned, batchFrame>>

\* the engine handles the message: Pending with the context lock held
BatchPending ==
    /\ ctxLock = "none"
    /\ notified = 1
    /\ InstallVM(Pending(VM))
    /\ notified' = 0
    /\ returned' = vmTxs
    /\ UNCHANGED batchFrame

NextBatch ==
    \/ BatchIssueTx
    \/ EngineReceive
    \/ BatchPending
    \/ TimerFire
    \/ TimerLock
    \/ TimerFlush
    \/ TimerUnlock

SpecBatch == InitBatch /\ [][NextBatch]_vars

\* the timeout elapses and the dispatcher runs the callback, the engine
\* reads its channel, and the context lock is granted to the engine after
\* finitely many other holders
SpecBatchFair ==
    /\ SpecBatch
    /\ WF_vars(TimerFire)
    /\ WF_vars(TimerLock)
    /\ WF_vars(TimerFlush)
    /\ WF_vars(TimerUnlock)
    /\ WF_vars(EngineReceive)
    /\ SF_vars(BatchPending)

(***************************************************************************)
(* Properties                                                              *)
(***************************************************************************)
Inputs == UNION {InputIDs(t) : t \in Txs}

AcceptedSpenders(inputID) == {t \in Txs : inputID \in InputIDs(t) /\ status[t] = Accepted}

\* C1: for every input id at most one tx that lists that input id among its
\* inputs has status Accepted
C1_UniqueSpenderAcceptance ==
    \A inputID \in Inputs : Cardinality(AcceptedSpenders(inputID)) <= 1

\* the step is a call of RecordPoll
PollStep == currentVote' = currentVote + 1

\* the step is the call of Add for tx
AddStep(tx) == tx \notin DOMAIN nodes /\ tx \in DOMAIN nodes'

\* the two txs spend a common input
Shares(a, b) == InputIDs(a) \cap InputIDs(b) # {}

\* tx was accepted, or rejected, by the step
NewlyAccepted(tx) == status[tx] # Accepted /\ status'[tx] = Accepted

NewlyRejected(tx) == status[tx] # Rejected /\ status'[tx] = Rejected

\* the accept callback of tx was the i-th callback of the last RecordPoll
AcceptedAt(tx, i) == i \in DOMAIN calls /\ calls[i] = <<"accept", tx>>

RejectedAt(tx, i) == i \in DOMAIN calls /\ calls[i] = <<"reject", tx>>

C3_ConflictsRejectedOnAccept ==
    [][PollStep =>
        \A T \in DOMAIN nodes : NewlyAccepted(T) =>
            \A U \in (DOMAIN nodes) \ {T} :
                /\ Shares(T, U) => status'[U] = Rejected
                /\ (status'[U] = Rejected /\ ~Shares(T, U)) =>
                      \/ \E d \in Dependencies(U) : trStatus'[d] = Rejected
                      \/ \E V \in DOMAIN nodes : NewlyAccepted(V) /\ Shares(V, U)]_vars

\* C4: if a dependency D of a processing tx T becomes Rejected in a
\* RecordPoll, T is Rejected when that call returns; by applying this to
\* every link the rejection reaches the dependents of T too
C4_RejectionPropagates ==
    [][PollStep =>
        \A T \in DOMAIN nodes : \A D \in Dependencies(T) :
            NewlyRejected(D) => status'[T] = Rejected]_vars

\* C5: a processing tx that still has an undecided dependency is Rejected in
\* the RecordPoll that accepts a tx spending one of its inputs
C5_BlockedConflictRejected ==
    [][PollStep =>
        \A C \in DOMAIN nodes : \A P \in (DOMAIN nodes) \ {C} :
            (/\ NewlyAccepted(C)
             /\ Shares(C, P)
             /\ \E d \in Dependencies(P) : trStatus'[d] = Processing)
            => status'[P] = Rejected]_vars

\* C6: a tx that reached its threshold while a dependency is Processing keeps
\* status Processing as long as a dependency is, and it is Accepted when the
\* RecordPoll returns in which its last unaccepted dependency is Accepted,
\* with no further vote for it, unless a tx spending one of its inputs was
\* accepted first
C6_DeferredAcceptance ==
    [][PollStep =>
        \A T \in DOMAIN nodes :
            (nodes[T].pendingAccept /\ \E d \in Dependencies(T) : trStatus[d] = Processing)
            => /\ (\E d \in Dependencies(T) : trStatus'[d] = Processing)
                    => status'[T] # Accepted
               /\ (\A d \in Dependencies(T) : trStatus'[d] = Accepted)
                    => \/ status'[T] = Accepted
                       \/ \E C \in Txs \ {T} : Shares(C, T) /\ status'[C] = Accepted]_vars

Decided(tx) == status[tx] # Processing

C8_DependencyAcceptedFirst ==
    \A T \in Txs : \A D \in Dependencies(T) : \A i, j \in DOMAIN calls :
        (AcceptedAt(T, i) /\ AcceptedAt(D, j)) => j < i

\* one RecordPoll voted for a dependency and its dependent and accepted both
C8_Witness ==
    \E T \in Txs : \E D \in Dependencies(T) :
        /\ {T, D} \subseteq votes
        /\ \E i, j \in DOMAIN calls : AcceptedAt(T, i) /\ AcceptedAt(D, j)

\* C9: a RecordPoll that accepts a tx whose accept callback returns an
\* error, or one that accepts a tx while a processing tx that spends one of
\* its inputs has a reject callback that returns an error, returns an error;
\* so does every RecordPoll that invoked a callback that returns an error
C9_CallbackErrorSurfaces ==
    [][PollStep =>
        /\ \A T \in DOMAIN nodes :
              (/\ NewlyAccepted(T)
               /\ \/ T \in acceptV
                  \/ \E U \in (DOMAIN nodes) \ {T} : Shares(T, U) /\ U \in rejectV)
              => errs'
        /\ \A i \in DOMAIN calls' :
              (\/ calls'[i][1] = "accept" /\ calls'[i][2] \in acceptV
               \/ calls'[i][1] = "reject" /\ calls'[i][2] \in rejectV)
              => errs']_vars

\* the RecordPoll that accepted a tx returned the error of the reject
\* callback of a conflicting tx
C9_Witness ==
    /\ errs
    /\ \E T, U \in Txs : \E i, j \in DOMAIN calls :
          /\ U \in rejectV
          /\ Shares(T, U)
          /\ status[T] = Accepted
          /\ AcceptedAt(T, i)
          /\ RejectedAt(U, j)

\* no decided tx is in txs or in a bucket of utxos
DrainedAbsent ==
    \A tx \in Txs : Decided(tx) =>
        tx \notin txs /\ \A inputID \in DOMAIN utxos : tx \notin utxos[inputID]

\* a tx without conflicts reaches its threshold with BetaVirtuous polls
VirtuousThreshold ==
    \A tx \in DOMAIN nodes :
        (~nodes[tx].rogue /\ nodes[tx].confidence >= betaVirtuous) => nodes[tx].pendingAccept

\* C10: a decided tx is neither in txs nor in a bucket of utxos; a tx added
\* when every issued tx that spends one of its inputs is decided is virtuous,
\* and a virtuous tx reaches its threshold with BetaVirtuous consecutive
\* successful polls
C10_DrainedAbsent ==
    [][/\ DrainedAbsent'
       /\ \A tx \in Txs :
             (AddStep(tx) /\ \A u \in Txs \ {tx} : (Shares(u, tx) /\ Issued(World, u)) => Decided(u))
             => tx \in virtuous' /\ ~nodes'[tx].rogue
       /\ VirtuousThreshold']_vars

\* a tx added after a spender of one of its inputs was rejected reached its
\* threshold as a virtuous tx, with fewer polls than BetaRogue
C10_Witness ==
    \E tx \in DOMAIN nodes : \E u \in Txs \ {tx} :
        /\ Shares(u, tx)
        /\ status[u] = Rejected
        /\ ~nodes[tx].rogue
        /\ nodes[tx].pendingAccept
        /\ nodes[tx].confidence < betaRogue

\* the processing txs other than tx that spend an input of tx
ProcessingConflicts(tx) == {u \in (DOMAIN nodes) \ {tx} : Shares(tx, u)}

ConflictSet(inputID) == {t \in DOMAIN nodes : inputID \in InputIDs(t)}

DecisionStep == calls' # <<>>

\* the step reversed a conflict edge between two txs that stay processing
RedirectStep ==
    \E t \in (DOMAIN nodes) \cap (DOMAIN nodes') : \E u \in (DOMAIN nodes) \cap (DOMAIN nodes') :
        u \in nodes[t].outs /\ u \in nodes'[t].ins

C16_IsVirtuousOfProcessing ==
    \A tx \in Txs :
        /\ (tx \in txs /\ ProcessingConflicts(tx) = {}) => IsVirtuous(World, tx)
        /\ ProcessingConflicts(tx) # {} => ~IsVirtuous(World, tx)

\* C17: Conflicts(tx) is the union of the spender sets of the inputs of tx
\* minus tx itself, for a tx that is not processing yet and for a tx that
\* was added
C17_ConflictsExcludeSelf ==
    \A tx \in Txs :
        (tx \in txs \/ ~Issued(World, tx)) =>
            Conflicts(World, tx) =
                UNION {Get(utxos, inputID, {}) : inputID \in InputIDs(tx)} \ {tx}

\* the number of times the last RecordPoll called the callback of tx
Count(kind, tx) == Cardinality({i \in DOMAIN calls : calls[i] = <<kind, tx>>})

\* the acceptor of tx fired: every dependency it waited for was fulfilled
AcceptorFired(tx) ==
    tx \in DOMAIN acceptors /\ acceptors[tx].deps = {} /\ ~acceptors[tx].rejected

\* the rejector of tx fired
RejectorFired(tx) == tx \in DOMAIN rejectors /\ rejectors[tx].rejected

\* a dependency of the acceptor of tx was abandoned: it was rejected
AcceptorAbandoned(tx) ==
    tx \in DOMAIN acceptors /\ \E d \in Dependencies(tx) : status[d] = Rejected

\* a dependency of the rejector of tx was abandoned: it was accepted
RejectorAbandoned(tx) ==
    tx \in DOMAIN rejectors /\ \E d \in rejectors[tx].deps \ {tx} : status[d] = Accepted

Referenced == UNION {funds[a] : a \in addrs}

\* C19: when the paginated iteration ends, with the first empty page, every
\* UTXO referenced by a requested address was returned exactly once and no
\* other UTXO was returned
C19_EveryUTXOOnce ==
    (paginate /\ done) =>
        \A u \in UTXOIDs : fetched[u] = IF u \in Referenced THEN 1 ELSE 0

\* the orderings of the elements of a list
Orderings(list) ==
    {[i \in DOMAIN list |-> list[p[i]]] :
        p \in {q \in [DOMAIN list -> DOMAIN list] : \A i, j \in DOMAIN list : q[i] = q[j] => i = j}}

\* C20: Build returns the same vertex, with the same bytes and the same id,
\* or the same error, for every ordering of the parent ids, the transition
\* byte strings and the restrictions it was called with; the vertex holds
\* the parent ids and the restrictions in ascending order and the
\* transitions sorted by hash
C20_BuildOrderInvariant ==
    vtx # NoVertex =>
        /\ \A p \in Orderings(args.parentIDs) : \A t \in Orderings(args.trs) :
              \A r \in Orderings(args.restrictions) :
                 Build(chainID, height, vertexEpoch, p, t, r) = vtx
        /\ ~vtx.err =>
              /\ vtx.id = ComputeHash256Array(vtx.bytes)
              /\ \A i \in 1..(Len(vtx.innerStatelessVertex.ParentIDs) - 1) :
                    vtx.innerStatelessVertex.ParentIDs[i] < vtx.innerStatelessVertex.ParentIDs[i + 1]
              /\ \A i \in 1..(Len(vtx.innerStatelessVertex.Restrictions) - 1) :
                    vtx.innerStatelessVertex.Restrictions[i]
                        < vtx.innerStatelessVertex.Restrictions[i + 1]
              /\ \A i \in 1..(Len(vtx.innerStatelessVertex.Transitions) - 1) :
                    HashOf(vtx.innerStatelessVertex.Transitions[i])
                        <= HashOf(vtx.innerStatelessVertex.Transitions[i + 1])

\* Build returned a vertex for parent ids, transitions and restrictions that
\* were each passed in another order than the one the vertex holds
C20_Witness ==
    /\ vtx # NoVertex
    /\ ~vtx.err
    /\ args.parentIDs # vtx.innerStatelessVertex.ParentIDs
    /\ args.trs # vtx.innerStatelessVertex.Transitions
    /\ args.restrictions # vtx.innerStatelessVertex.Restrictions

\* Shutdown was called and has not returned
InShutdown == pcEngine \in {"stopping", "waiting", "relock", "closing"}

\* C21: while Shutdown runs some thread can take a step, so Shutdown never
\* waits for a callback that waits for the lock Shutdown holds; the timer
\* is stopped with the lock released, and the database is closed with the
\* lock held again, after the dispatcher returned: no callback is waiting
\* for the lock or executing FlushTxs when the database is closed
C21_ShutdownNoDeadlock ==
    /\ InShutdown => ENABLED NextShutdown
    /\ pcEngine \in {"stopping", "waiting"} => ctxLock # "engine"
    /\ pcEngine = "closing" => ctxLock = "engine"
    /\ (closed \/ pcEngine = "closing") => finished /\ pcTimer = "exited"

\* Shutdown returned after it began while the callback of the timer was
\* waiting for the context lock
C21_Witness == closed /\ raced /\ pcEngine = "done"

\* C22: an update of a managed asset passes the epoch check exactly when
\* the epoch of the tx is at least last_updated_epoch + 2, the sum taken
\* without a width
C22_EpochCheckUnbounded ==
    (/\ called = "operation"
     /\ early \in {"ok", "errVerifyTransfer"}
     /\ isUpdate
     /\ lookup = "managed")
    => (verdict # "errEpoch" <=> LessEq(AddWide(lastUpdatedEpoch, 2), txEpoch))

\* the status a transfer is to be judged against
ChosenStatus ==
    IF LessEq(txEpoch, AddWide(lastUpdatedEpoch, 1)) THEN oldStatus ELSE assetStatus

\* C23: a transfer of a managed asset is judged against old_status when the
\* epoch of the tx is at most last_updated_epoch + 1 and against status
\* otherwise; it is rejected when that status is frozen, and otherwise it is
\* authorized exactly when the credential satisfies the owner of the UTXO
\* or the manager of that status
C23_TransferJudgedByEpoch ==
    (/\ called = "transfer"
     /\ early \in {"ok", "errGetUTXO"}
     /\ lookup = "managed")
    => /\ Frozen(ChosenStatus) => verdict # "nil"
       /\ ~Frozen(ChosenStatus) =>
            (verdict = "nil" <=>
                \/ VerifyPermission(cred, UTXOOwner)
                \/ VerifyPermission(cred, Manager(ChosenStatus)))

\* the threshold of a processing tx: beta_virtuous while no conflicting tx
\* was added alongside it, beta_rogue otherwise
BetaOf(tx) == IF nodes[tx].rogue THEN betaRogue ELSE betaVirtuous

\* the confidence of a processing tx after the poll of the step
ConfidenceAfter(tx) == IF tx \in votes' THEN nodes[tx].confidence + 1 ELSE 0

\* C24: a processing tx is not accepted by a poll that leaves its streak of
\* successful polls below its threshold (beta_virtuous if no conflicting tx
\* was ever added alongside it, beta_rogue otherwise), unless it reached the
\* threshold before; a poll that takes the streak to the threshold accepts
\* the tx when all its dependencies are accepted
C24_FinalizeAtBeta ==
    [][PollStep =>
        \A t \in DOMAIN nodes :
            /\ (~nodes[t].pendingAccept /\ ConfidenceAfter(t) < BetaOf(t))
                  => status'[t] # Accepted
            /\ (/\ ConfidenceAfter(t) >= BetaOf(t)
                /\ \A d \in Dependencies(t) : trStatus[d] = Accepted)
                  => status'[t] = Accepted]_vars

\* with beta_virtuous = 1 and beta_rogue = 2 a rogue tx has been accepted by
\* its second consecutive successful poll
C24_Witness ==
    /\ betaVirtuous = 1
    /\ betaRogue = 2
    /\ currentVote = 2
    /\ \E t, u \in Txs :
          /\ t # u
          /\ Shares(t, u)
          /\ status[t] = Accepted
          /\ status[u] = Rejected

\* the place of a tx in the order of the additions
Pos(tx) == CHOOSE i \in DOMAIN inserted : inserted[i] = tx

\* tx has more successful polls than u, or as many and was added first
Outranks(tx, u) ==
    \/ nodes[tx].numSuccessfulPolls > nodes[u].numSuccessfulPolls
    \/ /\ nodes[tx].numSuccessfulPolls = nodes[u].numSuccessfulPolls
       /\ Pos(tx) < Pos(u)

C27_FailedPollResetsConfidence ==
    [][PollStep =>
        \A t \in (DOMAIN nodes) \cap (DOMAIN nodes') :
            /\ t \notin votes' =>
                  /\ nodes'[t].confidence = 0
                  /\ nodes'[t].numSuccessfulPolls = nodes[t].numSuccessfulPolls
            /\ t \in votes' =>
                  /\ nodes'[t].confidence = nodes[t].confidence + 1
                  /\ nodes'[t].numSuccessfulPolls = nodes[t].numSuccessfulPolls + 1
            /\ (nodes'[t].pendingAccept /\ ~nodes[t].pendingAccept) =>
                  /\ t \in votes'
                  /\ nodes'[t].confidence >= BetaOf(t)]_vars

\* a tx that had a successful poll lost its confidence to the next poll,
\* which was successful for a conflicting tx
C27_Witness ==
    /\ betaRogue = 2
    /\ currentVote = 2
    /\ \E t \in DOMAIN nodes : \E u \in ProcessingConflicts(t) :
          /\ u \in votes
          /\ nodes[t].numSuccessfulPolls > 0
          /\ nodes[t].confidence = 0

\* the conditions under which Update goes on, in the state it is called in
UpdateGoesOn ==
    /\ vtxDeps' = {}
    /\ unfulfilledDeps' = {}
    /\ ~abandoned
    /\ ~issuerIssued
    /\ ~consensusHas
    /\ ~engineErrs

\* the step ran issuer.Update
UpdateStep == lastCall' \in {"FulfillVtx", "FulfillTr", "Update"}

\* C28: a step of the issuer adds the vertex to consensus only if Update
\* was called with vtxDeps and unfulfilledDeps empty, the issuer not
\* abandoned and not issued, the vertex not issued in consensus and no error
\* in the error collector; called in any other state Update changes nothing
C28_UpdateGuard ==
    [][/\ (lastCall' # "other" /\ consensusHas' /\ ~consensusHas)
            => UpdateStep /\ UpdateGoesOn
       /\ (UpdateStep /\ ~UpdateGoesOn) => UNCHANGED issuerState]_vars

\* the issuer added its vertex in the Update that followed the fulfilment
\* of its last dependency
C28_Witness ==
    /\ lastCall = "FulfillTr"
    /\ vtxDeps = {}
    /\ unfulfilledDeps = {}
    /\ issuerIssued
    /\ consensusHas
    /\ pushQueried
    /\ vtxBlocked = "fulfilled"

\* Update was called with all dependencies met and went on to verify the
\* txs of the vertex
VerifiedStep == UpdateStep /\ UpdateGoesOn /\ fail # "txs"

SomeInvalid == \E tx \in 1..MaxVtxTxs : ~verifyOK[tx]

\* the step made one call of t.batch
Batched(epoch, batchTrs, batchRestrictions) ==
    /\ Len(batches') = Len(batches) + 1
    /\ batches'[Len(batches')].epoch = epoch
    /\ batches'[Len(batches')].trs = batchTrs
    /\ batches'[Len(batches')].restrictions = batchRestrictions

\* C29: when Update runs with all dependencies met, some tx of the vertex
\* fails verification and updated_epoch is set, the valid transitions are
\* batched into the current epoch with one restriction that lists exactly
\* the invalid transitions, the vertex is not added to consensus and the
\* waiters on the vertex are abandoned (stated for the Updates in which
\* vtx.Epoch() returns no error)
C29_RebatchIntoCurrentEpoch ==
    [][(VerifiedStep /\ SomeInvalid /\ updatedEpoch /\ fail # "epoch")
        => /\ Batched(currentEpoch, validTransitions, <<invalidTransitions>>)
           /\ ~consensusHas'
           /\ vtxBlocked' = "abandoned"]_vars

\* the literal reading of C30
C30_InvalidNeverAddedRebatched ==
    [][(VerifiedStep /\ SomeInvalid)
        => /\ ~consensusHas'
           /\ ~pushQueried'
           /\ ~updatedEpoch
                 => /\ Batched(epochOfVtx, validTransitions, <<>>)
                    /\ vtxBlocked' = "abandoned"]_vars

\* C30: an Update that finds a tx of the vertex that fails verification
\* does not add the vertex to consensus and does not push-query it, with
\* updated_epoch set or not; when updated_epoch is not set and vtx.Epoch()
\* returns no error the valid transitions are batched without a restriction
\* and the waiters on the vertex are abandoned; when vtx.Epoch() returns an
\* error it is recorded, nothing is batched and the waiters are left waiting
C30_InvalidNeverAdded ==
    [][(VerifiedStep /\ SomeInvalid)
        => /\ ~consensusHas'
           /\ ~pushQueried'
           /\ (~updatedEpoch /\ fail # "epoch")
                 => /\ Batched(epochOfVtx, validTransitions, <<>>)
                    /\ vtxBlocked' = "abandoned"
           /\ fail = "epoch"
                 => /\ engineErrs'
                    /\ batches' = batches
                    /\ vtxBlocked' = vtxBlocked]_vars

\* a vertex with a tx that fails verification and updated_epoch not set was
\* abandoned and its valid transition batched without a restriction
C30_Witness ==
    /\ SomeInvalid
    /\ ~updatedEpoch
    /\ issuerIssued
    /\ ~consensusHas
    /\ ~pushQueried
    /\ vtxBlocked = "abandoned"
    /\ Len(batches) = 1
    /\ batches[1].trs # <<>>
    /\ batches[1].restrictions = <<>>

\* a call of the issuer, as opposed to a step of the rest of the engine
IssuerStep == lastCall' \in {"FulfillVtx", "FulfillTr", "Update", "Abandon"}

\* Update went on and read the txs and the epoch of the vertex
EpochReadStep == VerifiedStep /\ fail # "epoch"

\* t.vtxBlocked.Fulfill was called for the vertex
Fulfilled(calls_) == \E i \in DOMAIN calls_ : calls_[i] = "Fulfill"

\* the literal reading of C31, for a vertex whose txs all verify
C31_FutureVertexAbandonedAfterRebatch ==
    [][(EpochReadStep /\ epochOfVtx > currentEpoch /\ ~SomeInvalid)
        => /\ ~consensusHas'
           /\ ~pushQueried'
           /\ ~Fulfilled(blockerCalls')
           /\ vtxBlocked' = "abandoned"
           /\ unissuedTransitions # <<>>
                 => Batched(currentEpoch, unissuedTransitions, <<>>)]_vars

\* C31: an Update that finds the epoch of the vertex greater than the
\* current epoch does not add the vertex, does not push-query it and does
\* not fulfill its waiters; when all txs of the vertex verify it first
\* batches the transitions that are not processing, if there are any, into
\* the current epoch, and then abandons the waiters, unless that batch
\* returns an error: then the error is recorded and the waiters are left
\* waiting
C31_FutureVertexNeverAdded ==
    [][/\ (IssuerStep /\ epochOfVtx > currentEpoch)
          => /\ addCalls' = 0
             /\ consensusHas' = consensusHas
             /\ ~pushQueried'
             /\ ~Fulfilled(blockerCalls')
       /\ (EpochReadStep /\ epochOfVtx > currentEpoch /\ ~SomeInvalid)
          =>
             /\ unissuedTransitions # <<>>
                   => /\ Batched(currentEpoch, unissuedTransitions, <<>>)
                      /\ batches'[Len(batches')].force
             /\ unissuedTransitions = <<>> => batches' = batches
             /\ IF unissuedTransitions # <<>> /\ fail = "batch"
                THEN engineErrs' /\ vtxBlocked' = vtxBlocked /\ blockerCalls' = blockerCalls
                ELSE vtxBlocked' = "abandoned"]_vars

\* a vertex of a future epoch whose txs all verify was dropped after its
\* transitions were batched into the current epoch
C31_Witness ==
    /\ epochOfVtx > currentEpoch
    /\ ~SomeInvalid
    /\ issuerIssued
    /\ ~consensusHas
    /\ ~pushQueried
    /\ Len(batches) = 1
    /\ batches[1].epoch = currentEpoch
    /\ batches[1].force
    /\ blockerCalls = <<"Abandon">>

\* the transitions of the vertex that are not processing in consensus, in
\* the order of the vertex
NotProcessing == SelectSeq(VtxTxs, LAMBDA tx : tx \notin processingTrs)

\* C32: when Update goes on with a vertex whose txs all verify, it calls
\* batch once, for the current epoch, with force set, without restrictions
\* and with exactly the transitions that are not processing, if the epoch of
\* the vertex differs from the current epoch and some transition is not
\* processing, and it does not call batch otherwise; the call comes before
\* the vertex is added or dropped: when it returns an error the vertex is
\* neither added nor are its waiters notified
C32_ReissueExactlyUnissued ==
    [][(EpochReadStep /\ ~SomeInvalid)
        => IF epochOfVtx # currentEpoch /\ NotProcessing # <<>>
           THEN /\ batches' = Append(batches, [epoch |-> currentEpoch,
                                               trs |-> NotProcessing,
                                               restrictions |-> <<>>,
                                               force |-> TRUE,
                                               empty |-> FALSE,
                                               updatedEpoch |-> TRUE])
                /\ fail = "batch" => /\ ~consensusHas'
                                     /\ addCalls' = addCalls
                                     /\ blockerCalls' = blockerCalls
           ELSE batches' = batches]_vars

\* a vertex of an earlier epoch with one transition processing and one not
\* was added after the one that is not processing was reissued
C32_Witness ==
    /\ epochOfVtx < currentEpoch
    /\ ~SomeInvalid
    /\ processingTrs = {1}
    /\ consensusHas
    /\ addCalls = 1
    /\ Len(batches) = 1
    /\ batches[1].trs = <<2>>
    /\ batches[1].epoch = currentEpoch

\* Update reaches the call of Consensus.Add: the txs and the epoch are read,
\* all txs verify, the reissue batch, if any, returns no error and the
\* vertex is not of a future epoch
ReachesAdd ==
    /\ EpochReadStep
    /\ ~SomeInvalid
    /\ epochOfVtx <= currentEpoch
    /\ ~(epochOfVtx # currentEpoch /\ NotProcessing # <<>> /\ fail = "batch")

\* C33: the waiters on the vertex are fulfilled and its transitions marked
\* issued only in a step in which this issuer added the vertex to consensus
\* without error; an Update that reaches Consensus.Add fulfills them and
\* marks the transitions if Add returns no error, also when sampling the
\* validators fails and no push-query is sent, and does neither, recording
\* the error, if Add returns an error
C33_FulfillOnlyAfterAdd ==
    [][/\ (\/ Fulfilled(blockerCalls') /\ ~Fulfilled(blockerCalls)
           \/ transitionsIssued' /\ ~transitionsIssued
           \/ vtxBlocked' = "fulfilled" /\ vtxBlocked # "fulfilled")
          => /\ ReachesAdd
             /\ fail # "add"
             /\ consensusHas'
             /\ addCalls' = addCalls + 1
       /\ ReachesAdd
          => /\ addCalls' = addCalls + 1
             /\ IF fail = "add"
                THEN /\ ~consensusHas'
                     /\ engineErrs'
                     /\ blockerCalls' = blockerCalls
                     /\ vtxBlocked' = vtxBlocked
                     /\ ~transitionsIssued'
                     /\ queries' = queries
                ELSE /\ consensusHas'
                     /\ blockerCalls' = Append(blockerCalls, "Fulfill")
                     /\ vtxBlocked' = "fulfilled"
                     /\ transitionsIssued'
                     /\ fail = "sample" => ~pushQueried' /\ queries' = queries]_vars

\* the waiters were fulfilled although sampling failed and no push-query
\* was sent
C33_Witness ==
    /\ fail = "sample"
    /\ consensusHas
    /\ addCalls = 1
    /\ blockerCalls = <<"Fulfill">>
    /\ transitionsIssued
    /\ ~pushQueried
    /\ queries = <<>>

\* C34: a first Abandon sets the abandoned flag, takes the vertex out of
\* the pending set and calls vtxBlocked.Abandon; an Abandon of an abandoned
\* issuer changes nothing; and no call of an abandoned issuer adds the
\* vertex to consensus, sends a push-query or clears the flag
C34_AbandonIsFinal ==
    [][/\ (lastCall' = "Abandon" /\ ~abandoned)
          => /\ abandoned'
             /\ ~vtxPending'
             /\ vtxBlocked' = "abandoned"
             /\ blockerCalls' = Append(blockerCalls, "Abandon")
       /\ (lastCall' = "Abandon" /\ abandoned) => UNCHANGED issuerState
       /\ (IssuerStep /\ abandoned)
          => /\ abandoned'
             /\ addCalls' = addCalls
             /\ consensusHas' = consensusHas
             /\ pushQueried' = pushQueried
             /\ queries' = queries
             /\ requestID' = requestID]_vars

\* Update was called on an abandoned issuer whose dependencies are all met
\* and whose vertex could otherwise have been issued
C34_Witness ==
    /\ abandoned
    /\ lastCall \in {"FulfillVtx", "FulfillTr", "Update"}
    /\ vtxDeps = {}
    /\ unfulfilledDeps = {}
    /\ ~SomeInvalid
    /\ fail = "none"
    /\ epochOfVtx = currentEpoch
    /\ ~engineErrs
    /\ ~issuerIssued
    /\ ~consensusHas
    /\ blockerCalls = <<"Abandon">>

\* C39: a call of the issuer calls Consensus.Add only if the issuer has not
\* called it before, and sends a push-query only if it has sent none
\* before, one per call; and every push-query, of this issuer or another,
\* carries a RequestID greater than that of every push-query sent before
C39_AtMostOneAddAndQuery ==
    [][/\ IssuerStep
          => /\ addCalls' # addCalls => addCalls = 0 /\ addCalls' = 1
             /\ queries' # queries
                   => /\ ~pushQueried
                      /\ pushQueried'
                      /\ addCalls = 0
                      /\ Len(queries') = Len(queries) + 1
             /\ pushQueried => pushQueried'
       /\ queries' # queries
          => /\ Len(queries') = Len(queries) + 1
             /\ \A i \in DOMAIN queries :
                   /\ queries'[i] = queries[i]
                   /\ queries[i] < queries'[Len(queries')]]_vars

\* the issuer sent its push-query, other issuers sent theirs, and the issuer
\* was called again afterwards
C39_Witness ==
    /\ pushQueried
    /\ addCalls = 1
    /\ Len(queries) = MaxQueries + 1
    /\ \A i \in 1..MaxQueries : queries[i] < queries[i + 1]
    /\ lastCall = "Abandon"

\* the number of calls of vtxBlocked.Abandon for the vertex
Abandons(calls_) == Cardinality({i \in DOMAIN calls_ : calls_[i] = "Abandon"})

\* C40: vtxBlocked.Fulfill and vtxBlocked.Abandon are never both called for
\* the vertex, and vtxBlocked.Abandon is called at most once
C40_OneOutcome ==
    /\ ~(Fulfilled(blockerCalls) /\ Abandons(blockerCalls) > 0)
    /\ Abandons(blockerCalls) <= 1

\* the number of times the last RecordPoll received tx from Updateable, in
\* the acceptable or in the rejectable list
Returned(tx) == Count("accept", tx) + Count("reject", tx)

\* C37: over the Updateable calls of all RecordPolls a tx is returned at
\* most once, in the acceptable or in the rejectable list: a RecordPoll
\* receives a tx at most once and receives no tx that an earlier RecordPoll
\* received and decided
C37_EnqueuedAtMostOnce ==
    [][PollStep =>
        \A tx \in Txs :
            /\ Returned(tx)' <= 1
            /\ Returned(tx)' > 0 => status[tx] = Processing]_vars

\* C38: utxos[i] contains t exactly when t is in txs and i is an input of t,
\* and no bucket of utxos is empty
C38_SpenderIndexIsInverse ==
    /\ \A inputID \in Inputs : \A t \in Txs :
          (inputID \in DOMAIN utxos /\ t \in utxos[inputID])
              <=> (t \in txs /\ inputID \in InputIDs(t))
    /\ DOMAIN utxos \subseteq Inputs
    /\ \A inputID \in DOMAIN utxos : utxos[inputID] # {} /\ utxos[inputID] \subseteq Txs

\* a tx was decided and left the index while two txs that spend a common
\* input are still processing, and an input of the decided tx has no bucket
C38_Witness ==
    /\ \E t \in Txs : Decided(t) /\ \E inputID \in InputIDs(t) : inputID \notin DOMAIN utxos
    /\ \E inputID \in DOMAIN utxos : Cardinality(utxos[inputID]) >= 2

\* the step is a call of issueTx, of Pending, of FlushTxs by the callback
IssueTxStep == vmTxs' = vmTxs + 1

PendingStep == notified = 1 /\ notified' = 0

FlushStep == pcTimer = "flushing" /\ pcTimer' = "unlocking"

\* FlushTxs ran on a buffer that is not empty: the timeout is cancelled and
\* a notification is in the channel, or the channel was full and the timeout
\* is set again
Flushed ==
    /\ toEngine' = 1
    /\ armed' = (toEngine = 1)

\* C35: issueTx sets the timeout when it buffers the first tx and flushes
\* when the buffer reaches batchSize, and does neither otherwise; the
\* callback of the timeout flushes; a flush of a buffer that is not empty
\* leaves a notification in the channel; Pending cancels the timeout and
\* returns and empties the whole buffer
C35_BatchNotifies ==
    [][/\ IssueTxStep
          => IF vmTxs' = batchSize THEN Flushed
             ELSE IF vmTxs' = 1 THEN armed' /\ toEngine' = toEngine
             ELSE armed' = armed /\ toEngine' = toEngine
       /\ (FlushStep /\ vmTxs # 0) => Flushed /\ vmTxs' = vmTxs
       /\ PendingStep => ~armed' /\ vmTxs' = 0 /\ returned' = vmTxs /\ toEngine' = toEngine]_vars

\* the buffer reached batchSize while the timeout was running and Pending
\* returned all of it
C35_Witness ==
    /\ returned = batchSize
    /\ vmTxs = 0
    /\ ~armed
    /\ toEngine = 0

\* C36: a buffer that is not empty is eventually returned by a Pending call
C36_EveryTxDelivered == (vmTxs > 0) ~> (vmTxs = 0)

\* a buffer that grew past batchSize while the channel was full was
\* returned by Pending
C36_Witness ==
    /\ returned > batchSize
    /\ vmTxs = 0

====
